---------------------------- MODULE Spec2Model ----------------------------
(***************************************************************************)
(* Model of the MindMap document core: the App component's document        *)
(* state (mindMap, history, historyIndex), the mutation/commit pipeline,   *)
(* the dependency engine and the process editor's step list.               *)
(*                                                                         *)
(* JavaScript objects that the code mutates in place (process steps) live  *)
(* in `heap`, a function from references to objects; a step list is a      *)
(* sequence of references.  Objects no longer reachable from the state are *)
(* dropped from the heap and their references are reused.  Absent          *)
(* optional values (null / undefined) are the empty sequence, a present    *)
(* value x is the one-element sequence <<x>>.                              *)
(***************************************************************************)
EXTENDS Integers, Sequences, FiniteSets, TLC

VARIABLES
    mindMap,         \* useState<MindMapData | null>: <<>> or <<tree>>
    history,         \* useState<HistoryEntry[]>
    historyIndex,    \* useState(-1)
    heap,            \* the reachable step objects, by reference
    clock,           \* Date.now(), as a logical clock
    processContent,  \* useState<{id, steps, isLocked} | null>: <<>> or <<rec>>
    steps,           \* ProcessModal's useState(initialSteps)
    pending,         \* the generation call awaiting its result: <<>> or <<rec>>
    lastCall,        \* the handler that ran last, with its arguments and what
                     \* it displayed or computed on the way
    session,         \* textInput, sessionName, tuning and theme of App
    tutorial,        \* isTutorialMode with TutorialOverlay's currentStep:
                     \* <<>> or <<step>>
    systemsViewData, \* useState<SystemsViewData | null>: <<>> or <<data>>
    systemsView      \* SystemsViewModal's rootId, data filter and editingCell
                     \* while it is shown: <<>> or <<rec>>

vars == <<mindMap, history, historyIndex, heap, clock, processContent, steps,
          pending, lastCall, session, tutorial, systemsViewData, systemsView>>

(* The state outside the document, its history and the process editor *)
appVars == <<session, tutorial, systemsViewData, systemsView>>

-----------------------------------------------------------------------------
(* Bounds *)

MaxClock == 3       \* history entries created in one behaviour of Spec
MaxHistClock == 12  \* history entries created in one behaviour of SpecHist
MaxEditorClock == 3 \* history entries created in one behaviour of SpecEditor
MaxAsyncClock == 4  \* history entries created in one behaviour of SpecAsync
MaxDepsClock == 5   \* history entries created in one behaviour of SpecDeps
MaxSteps == 2       \* steps in the process editor's list
MaxNodes == 4       \* nodes of a tree handed to the tree utilities
MaxFlowSteps == 2   \* steps of a process opened in the flow view
MaxBranches == 2    \* decision branches in a process opened in the flow view
MaxEdited == 1      \* steps of the flow view's list not yet saved
MaxLinkSteps == 2   \* steps of a generated process handed to the auto-linker
MaxLinkBranches == 2 \* decision branches in such a generated process
MaxActors == 3      \* actor ids of a systems view
MaxInteractions == 3 \* interactions of a systems view
MaxAddedActors == 2 \* actors added by name to a systems view
MaxLinks == 1       \* interactions of a systems view under edit
MaxSessionClock == 12 \* Date.now() in runs with the tutorial and the landing page

(* Program constant *)

TutorialSteps == 7   \* STEPS.length of the tutorial overlay

HistoryLimit == 10

Null == <<>>
Some(x) == <<x>>
IsNull(o) == o = <<>>
Val(o) == o[1]

-----------------------------------------------------------------------------
(* Sequence helpers standing for the JavaScript array methods used *)

includes(s, x) == \E i \in 1..Len(s) : s[i] = x

Occurrences(s, x) == Cardinality({i \in 1..Len(s) : s[i] = x})

NoDuplicates(s) == \A i, j \in 1..Len(s) : s[i] = s[j] => i = j

(* Array.prototype.slice(0, end) for end >= 0 *)
slice0(s, end) == SubSeq(s, 1, IF end > Len(s) THEN Len(s) ELSE end)

-----------------------------------------------------------------------------
(* MindMapData *)

MkNode(id, label, kids) ==
    [ id |-> id, label |-> label, collapsed |-> FALSE,
      watchedNodeIds |-> <<>>, isFlaggedForReview |-> FALSE,
      flaggedSourceIds |-> <<>>, cachedDetails |-> "",
      cachedProcess |-> <<>>, processLocked |-> TRUE,
      children |-> kids ]

(* ProcessStep: an action step as the editor creates it.  branches is     *)
(* absent (Null) or Some(list) of [label, targetStepId], the target absent *)
(* or Some(step id).                                                       *)
MkStep(id, stepNumber) ==
    [ id |-> id, stepNumber |-> stepNumber, type |-> "action",
      action |-> "New Step", isEndState |-> FALSE, branches |-> Null ]

MkBranch(label, target) == [label |-> label, targetStepId |-> target]

RECURSIVE NodesOf(_)
NodesOf(node) ==
    LET RECURSIVE Kids(_)
        Kids(ks) == IF ks = <<>> THEN <<>>
                    ELSE NodesOf(Head(ks)) \o Kids(Tail(ks))
    IN  <<node>> \o Kids(node.children)

IdsOf(root) == {NodesOf(root)[i].id : i \in 1..Len(NodesOf(root))}


RECURSIVE ReplaceAt(_, _, _)
ReplaceAt(root, at, newNode) ==
    IF at = <<>> THEN newNode
    ELSE [root EXCEPT !.children[Head(at)] = ReplaceAt(@, Tail(at), newNode)]

(* The tree with every step reference replaced by the step object it        *)
(* designates: what JSON.stringify would write.                             *)
RECURSIVE Deref(_, _)
Deref(node, hp) ==
    [node EXCEPT !.cachedProcess = [k \in 1..Len(@) |-> hp[@[k]]],
                 !.children = [i \in 1..Len(@) |-> Deref(@[i], hp)]]

(* The step objects of a tree in pre-order *)
StepsOf(root) ==
    LET ns == NodesOf(root)
        RECURSIVE Cat(_)
        Cat(i) == IF i > Len(ns) THEN <<>> ELSE ns[i].cachedProcess \o Cat(i + 1)
    IN  Cat(1)

RECURSIVE StepCount(_)
StepCount(node) ==
    LET RECURSIVE Sum(_)
        Sum(ks) == IF ks = <<>> THEN 0 ELSE StepCount(Head(ks)) + Sum(Tail(ks))
    IN  Len(node.cachedProcess) + Sum(node.children)

(* The n smallest references not in use, in increasing order *)
RECURSIVE FreshRefs(_, _)
FreshRefs(used, n) ==
    IF n = 0 THEN <<>>
    ELSE LET r == CHOOSE x \in 1..(Cardinality(used) + 1) :
                     /\ x \notin used
                     /\ \A y \in 1..(x - 1) : y \in used
         IN  <<r>> \o FreshRefs(used \cup {r}, n - 1)

(* The heap hp with the objects objs allocated at the references refs *)
Alloc(hp, refs, objs) ==
    [r \in DOMAIN hp \cup {refs[k] : k \in 1..Len(refs)} |->
        IF \E k \in 1..Len(refs) : refs[k] = r
        THEN objs[CHOOSE k \in 1..Len(refs) : refs[k] = r]
        ELSE hp[r]]

(* A parsed tree, its k-th step object in pre-order being fr[base + k] *)
RECURSIVE Intern(_, _, _)
Intern(node, base, fr) ==
    LET RECURSIVE Kids(_, _)
        Kids(ks, b) == IF ks = <<>> THEN <<>>
                       ELSE <<Intern(Head(ks), b, fr)>>
                            \o Kids(Tail(ks), b + StepCount(Head(ks)))
    IN  [node EXCEPT !.cachedProcess = [k \in 1..Len(@) |-> fr[base + k]],
                     !.children = Kids(@, base + Len(node.cachedProcess))]

(* JSON.parse(text): fresh objects for a tree written with inline steps *)
JSONparse(raw, hp) ==
    LET fr == FreshRefs(DOMAIN hp, StepCount(raw))
    IN  [tree |-> Intern(raw, 0, fr), heap |-> Alloc(hp, fr, StepsOf(raw))]

(* JSON.parse(JSON.stringify(root)): a deep copy sharing no object *)
JSONclone(root, hp) == JSONparse(Deref(root, hp), hp)

-----------------------------------------------------------------------------
(* Utility functions of the App module *)

(* findNodeAndPath reporting the node it was called on as the parent *)
RECURSIVE findNodeAndPath_ParentIsRoot(_, _, _)
findNodeAndPath_ParentIsRoot(root, targetId, currentPath) ==
    IF root.id = targetId
    THEN Some([node |-> root, path |-> Append(currentPath, root.label),
               parent |-> Null, at |-> <<>>])
    ELSE LET RECURSIVE loop(_)
             loop(i) ==
                 IF i > Len(root.children) THEN Null
                 ELSE LET child == root.children[i] IN
                      IF child.id = targetId
                      THEN Some([node |-> child,
                                 path |-> currentPath \o <<root.label, child.label>>,
                                 parent |-> Some(root), at |-> <<i>>])
                      ELSE LET result == findNodeAndPath_ParentIsRoot(child, targetId,
                                             Append(currentPath, root.label))
                           IN  IF ~IsNull(result)
                               THEN Some([Val(result) EXCEPT !.at = <<i>> \o @,
                                                             !.parent = Some(root)])
                               ELSE loop(i + 1)
         IN  loop(1)

RECURSIVE findNodeAndPath(_, _, _)
findNodeAndPath(root, targetId, currentPath) ==
    IF root.id = targetId
    THEN Some([node |-> root, path |-> Append(currentPath, root.label),
               parent |-> Null, at |-> <<>>])
    ELSE LET RECURSIVE loop(_)
             loop(i) ==
                 IF i > Len(root.children) THEN Null
                 ELSE LET child == root.children[i] IN
                      IF child.id = targetId
                      THEN Some([node |-> child,
                                 path |-> currentPath \o <<root.label, child.label>>,
                                 parent |-> Some(root), at |-> <<i>>])
                      ELSE LET result == findNodeAndPath(child, targetId,
                                             Append(currentPath, root.label))
                           IN  IF ~IsNull(result)
                               THEN Some([Val(result) EXCEPT !.at = <<i>> \o @])
                               ELSE loop(i + 1)
         IN  loop(1)

(* calculateNodeNumber keeping the root's "1.0" as the prefix of its children *)
RECURSIVE calculateNodeNumber_KeepZero(_, _, _)
calculateNodeNumber_KeepZero(root, targetId, currentNumber) ==
    IF root.id = targetId THEN Some(currentNumber)
    ELSE LET RECURSIVE loop(_)
             loop(i) ==
                 IF i > Len(root.children) THEN Null
                 ELSE LET childNumber == currentNumber \o "." \o ToString(i)
                          result == calculateNodeNumber_KeepZero(root.children[i],
                                        targetId, childNumber)
                      IN  IF ~IsNull(result) THEN result ELSE loop(i + 1)
         IN  loop(1)

(* The loop index i of the source is i - 1 here: children are 1-based *)
RECURSIVE calculateNodeNumber(_, _, _)
calculateNodeNumber(root, targetId, currentNumber) ==
    IF root.id = targetId THEN Some(currentNumber)
    ELSE LET RECURSIVE loop(_)
             loop(i) ==
                 IF i > Len(root.children) THEN Null
                 ELSE LET childNumber ==
                              (IF currentNumber = "1.0" THEN "1" ELSE currentNumber)
                                 \o "." \o ToString(i)
                          result == calculateNodeNumber(root.children[i],
                                        targetId, childNumber)
                      IN  IF ~IsNull(result) THEN result ELSE loop(i + 1)
         IN  loop(1)

(* Strings the code inspects are sequences of characters *)
LabelYes == <<"Y", "e", "s">>
LabelNo == <<"N", "o">>
LabelRetry == <<"R", "e", "t", "r", "y">>
LabelAbort == <<"A", "b", "o", "r", "t">>
LabelOK == <<"O", "K">>

UpperCase == <<"A", "B", "C", "D", "E", "F", "G", "H", "I", "J", "K", "L", "M", "N", "O", "P", "Q", "R", "S", "T", "U", "V", "W", "X", "Y", "Z">>
LowerCase == <<"a", "b", "c", "d", "e", "f", "g", "h", "i", "j", "k", "l", "m", "n", "o", "p", "q", "r", "s", "t", "u", "v", "w", "x", "y", "z">>

(* String.prototype.toLowerCase on the letters A-Z *)
toLowerCase(str) ==
    [i \in 1..Len(str) |->
        IF \E c \in 1..Len(UpperCase) : UpperCase[c] = str[i]
        THEN LowerCase[CHOOSE c \in 1..Len(UpperCase) : UpperCase[c] = str[i]]
        ELSE str[i]]

(* String.prototype.includes: k occurs in str as a substring *)
strIncludes(str, k) ==
    \E i \in 0..(Len(str) - Len(k)) : SubSeq(str, i + 1, i + Len(k)) = k

positiveKeywords ==
    << <<"y", "e", "s">>,
       <<"s", "u", "c", "c", "e", "s", "s">>,
       <<"p", "a", "s", "s">>,
       <<"o", "k">>,
       <<"t", "r", "u", "e">>,
       <<"c", "o", "n", "f", "i", "r", "m", "e", "d">>,
       <<"v", "a", "l", "i", "d">> >>

(* b => positiveKeywords.some(k => b.label.toLowerCase().includes(k)) *)
isPositive(b) ==
    \E n \in 1..Len(positiveKeywords) :
        strIncludes(toLowerCase(b.label), positiveKeywords[n])

(* Array.prototype.findIndex, 1-based, 0 when no element passes *)
findIndexPositive(bs) ==
    IF \E j \in 1..Len(bs) : isPositive(bs[j])
    THEN CHOOSE j \in 1..Len(bs) :
            isPositive(bs[j]) /\ \A h \in 1..(j - 1) : ~isPositive(bs[h])
    ELSE 0

(* The step returned for steps[index] when the first branch is linked       *)
(* whatever the labels                                                      *)
linkStep_FirstBranch(ss, index) ==
    LET step == ss[index]
    IN  IF step.type = "decision" /\ ~IsNull(step.branches)
             /\ Len(Val(step.branches)) > 0 /\ index + 1 <= Len(ss)
             /\ ~(\E j \in 1..Len(Val(step.branches)) :
                     ~IsNull(Val(step.branches)[j].targetStepId))
        THEN Some([step EXCEPT !.branches =
                      Some([Val(@) EXCEPT ![1].targetStepId = Some(ss[index + 1].id)])])
        ELSE Null

(* The step returned for steps[index] when a step with a linked branch is   *)
(* linked again                                                             *)
linkStep_IgnoreLinks(ss, index) ==
    LET step == ss[index]
    IN  IF step.type = "decision" /\ ~IsNull(step.branches)
             /\ Len(Val(step.branches)) > 0 /\ index + 1 <= Len(ss)
        THEN LET bestBranchIndex == findIndexPositive(Val(step.branches))
                 targetIndex == IF bestBranchIndex # 0 THEN bestBranchIndex ELSE 1
             IN  Some([step EXCEPT !.branches =
                         Some([Val(@) EXCEPT
                                 ![targetIndex].targetStepId = Some(ss[index + 1].id)])])
        ELSE Null

(* The callback of steps.map for steps[index]: Some(new step object) when   *)
(* the step is copied with a branch linked, Null when the step itself is    *)
(* returned                                                                 *)
linkStep(ss, index) ==
    LET step == ss[index]
    IN  IF step.type = "decision" /\ ~IsNull(step.branches)
             /\ Len(Val(step.branches)) > 0
        THEN IF index + 1 <= Len(ss)
             THEN LET nextStep == ss[index + 1]
                      hasLink == \E j \in 1..Len(Val(step.branches)) :
                                    ~IsNull(Val(step.branches)[j].targetStepId)
                  IN  IF ~hasLink
                      THEN LET bestBranchIndex == findIndexPositive(Val(step.branches))
                               targetIndex == IF bestBranchIndex # 0
                                              THEN bestBranchIndex ELSE 1
                           IN  Some([step EXCEPT !.branches =
                                       Some([Val(@) EXCEPT
                                               ![targetIndex].targetStepId =
                                                   Some(nextStep.id)])])
                      ELSE Null
             ELSE Null
        ELSE Null

(* autoLinkDecisions(steps) on the step objects refs of the heap hp: the    *)
(* new array holds a new object for every step linked and the step object   *)
(* itself for every other step                                              *)
autoLinkDecisions(hp, refs) ==
    LET ss == [k \in 1..Len(refs) |-> hp[refs[k]]]
        changed == {k \in 1..Len(refs) : ~IsNull(linkStep(ss, k))}
        fr == FreshRefs(DOMAIN hp, Cardinality(changed))
        rank(k) == Cardinality({h \in changed : h <= k})
    IN  [steps |-> [k \in 1..Len(refs) |->
                       IF k \in changed THEN fr[rank(k)] ELSE refs[k]],
         heap |-> Alloc(hp, fr,
                        [n \in 1..Cardinality(changed) |->
                            Val(linkStep(ss, CHOOSE k \in changed : rank(k) = n))])]

(* traverse flagging every node, watching or not *)
RECURSIVE traverse_FlagAll(_, _)
traverse_FlagAll(node, changedNodeId) ==
    [node EXCEPT
        !.isFlaggedForReview = TRUE,
        !.flaggedSourceIds = IF ~includes(@, changedNodeId)
                             THEN Append(@, changedNodeId) ELSE @,
        !.children = [i \in 1..Len(@) |-> traverse_FlagAll(@[i], changedNodeId)]]

(* traverse appending the changed id without looking for it first *)
RECURSIVE traverse_NoDedup(_, _)
traverse_NoDedup(node, changedNodeId) ==
    LET newNode ==
            IF includes(node.watchedNodeIds, changedNodeId)
            THEN [node EXCEPT
                    !.isFlaggedForReview = TRUE,
                    !.flaggedSourceIds = Append(@, changedNodeId)]
            ELSE node
    IN  [newNode EXCEPT
            !.children = [i \in 1..Len(@) |-> traverse_NoDedup(@[i], changedNodeId)]]

(* traverse raising the flag without recording its source *)
RECURSIVE traverse_FlagOnly(_, _)
traverse_FlagOnly(node, changedNodeId) ==
    LET newNode ==
            IF includes(node.watchedNodeIds, changedNodeId)
            THEN [node EXCEPT !.isFlaggedForReview = TRUE]
            ELSE node
    IN  [newNode EXCEPT
            !.children = [i \in 1..Len(@) |-> traverse_FlagOnly(@[i], changedNodeId)]]

RECURSIVE traverse(_, _)
traverse(node, changedNodeId) ==
    LET newNode ==
            IF includes(node.watchedNodeIds, changedNodeId)
            THEN [node EXCEPT
                    !.isFlaggedForReview = TRUE,
                    !.flaggedSourceIds =
                        IF ~includes(@, changedNodeId)
                        THEN Append(@, changedNodeId) ELSE @]
            ELSE node
    IN  [newNode EXCEPT
            !.children = [i \in 1..Len(@) |-> traverse(@[i], changedNodeId)]]

(* checkDependencies carried on to the watchers of every node it flags *)
checkDependencies_Cascading(root, changedNodeId) ==
    LET RECURSIVE go(_, _, _)
        go(tree, todo, done) ==
            IF todo = {} THEN tree
            ELSE LET x == CHOOSE y \in todo : TRUE
                     ns == NodesOf(tree)
                     hit == {ns[i].id : i \in {j \in 1..Len(ns) :
                                                  includes(ns[j].watchedNodeIds, x)}}
                 IN  go(traverse(tree, x),
                        (todo \ {x}) \cup (hit \ (done \cup {x})),
                        done \cup {x})
    IN  go(root, {changedNodeId}, {})

checkDependencies(root, changedNodeId) == traverse(root, changedNodeId)

-----------------------------------------------------------------------------
(* Reachability of step objects *)

RefsOf(root) == {StepsOf(root)[k] : k \in 1..Len(StepsOf(root))}

Reachable(mm, h, ss, p) ==
    UNION { (IF IsNull(mm) THEN {} ELSE RefsOf(Val(mm))),
            UNION {RefsOf(h[i].data) : i \in 1..Len(h)},
            {ss[k] : k \in 1..Len(ss)},
            (IF IsNull(p) \/ IsNull(Val(p).mindMap) THEN {}
             ELSE RefsOf(Val(Val(p).mindMap))) }

(* hp without the objects the next state cannot reach *)
Sweep(hp) ==
    LET live == Reachable(mindMap', history', steps', pending')
    IN  [r \in DOMAIN hp \cap live |-> hp[r]]

-----------------------------------------------------------------------------
(* History system *)

(* commitHistory keeping the entries past the current index *)
commitHistory_NoTruncate(prev, hIdx, entry) ==
    LET newHistory == Append(prev, entry)
    IN  IF Len(newHistory) > HistoryLimit THEN Tail(newHistory) ELSE newHistory

(* commitHistory evicting the newest of the old entries instead of the oldest *)
commitHistory_EvictNewest(prev, hIdx, entry) ==
    LET currentHistory == slice0(prev, hIdx + 1)
        newHistory == Append(currentHistory, entry)
    IN  IF Len(newHistory) > HistoryLimit
        THEN Append(SubSeq(currentHistory, 1, Len(currentHistory) - 1), entry)
        ELSE newHistory

commitHistory(prev, hIdx, entry) ==
    LET currentHistory == slice0(prev, hIdx + 1)
        newHistory == Append(currentHistory, entry)
    IN  IF Len(newHistory) > HistoryLimit THEN Tail(newHistory) ELSE newHistory

(* useEffect(() => setHistoryIndex(history.length - 1), [history]) *)
historyEffect(h) == Len(h) - 1

(* commitToHistory as called from a render whose historyIndex was hIdx *)
commitToHistory(newData, description, hIdx) ==
    /\ mindMap' = Some(newData)
    /\ history' = commitHistory(history, hIdx,
                     [data |-> newData, description |-> description,
                      timestamp |-> clock])
    /\ historyIndex' = historyEffect(history')
    /\ clock' = clock + 1

restoreInRange(index, h) == index >= 0 /\ index < Len(h)

(* restoreFromHistory dropping the entries past the restored one *)
restoreFromHistory_Truncating(index) ==
    /\ IF restoreInRange(index, history)
       THEN /\ mindMap' = Some(history[index + 1].data)
            /\ historyIndex' = index
            /\ history' = SubSeq(history, 1, index + 1)
       ELSE UNCHANGED <<mindMap, historyIndex, history>>
    /\ UNCHANGED clock
    /\ heap' = Sweep(heap)

restoreFromHistory(index) ==
    /\ IF restoreInRange(index, history)
       THEN /\ mindMap' = Some(history[index + 1].data)
            /\ historyIndex' = index
       ELSE UNCHANGED <<mindMap, historyIndex>>
    /\ UNCHANGED <<history, clock>>
    /\ heap' = Sweep(heap)


-----------------------------------------------------------------------------
(* The record kept of the last handler call *)

Call(op, id, index, dep, error) ==
    [op |-> op, id |-> id, index |-> index, dep |-> dep, error |-> error,
     before |-> Null, result |-> Null]

NoId == ""
NoIndex == Null

-----------------------------------------------------------------------------
(* Mutation / commit pipeline *)

(* The update functions the callers hand to updateNodeInTree, by caller *)
updateFn(op, arg, n) ==
    CASE op = "toggle"  -> [n EXCEPT !.collapsed = ~n.collapsed]
      [] op = "edit"    -> [n EXCEPT !.label = arg]
      [] op = "watch"   -> [n EXCEPT !.watchedNodeIds = arg]
      [] op = "clear"   -> [n EXCEPT !.isFlaggedForReview = FALSE,
                                     !.flaggedSourceIds = <<>>]
      [] op = "manual"  -> [n EXCEPT !.cachedProcess = arg, !.processLocked = FALSE]
      [] op = "lock"    -> [n EXCEPT !.processLocked = arg]
      [] op = "save"    -> [n EXCEPT !.cachedProcess = arg]
      [] op = "details" -> [n EXCEPT !.cachedDetails = arg]
      [] op = "expand"  -> [n EXCEPT !.children = arg, !.collapsed = FALSE]
      [] op = "process" -> [n EXCEPT !.cachedProcess = arg, !.processLocked = TRUE]

(* What updateNodeInTree computes from the document mm of its render: Null  *)
(* when the target is not found, else the tree to commit, the heap after    *)
(* the deep copy, and the checkDependencies call made, if any.              *)
applyUpdate(mm, hp, op, arg, nodeId, triggerDependencyCheck) ==
    LET c == JSONclone(mm, hp)
        target == findNodeAndPath(c.tree, nodeId, <<>>)
    IN  IF IsNull(target) THEN Null
        ELSE LET assigned == ReplaceAt(c.tree, Val(target).at,
                                       updateFn(op, arg, Val(target).node))
                 out == IF triggerDependencyCheck
                        THEN checkDependencies(assigned, nodeId) ELSE assigned
             IN  Some([clone |-> out, heap |-> c.heap,
                       dep |-> IF triggerDependencyCheck
                               THEN Some([root |-> assigned, id |-> nodeId,
                                          out |-> out])
                               ELSE Null])

(* updateNodeInTree of the render that saw document mm and index hIdx; hp   *)
(* is the heap including the objects the caller has just created.  The      *)
(* calling action fixes steps' and pending' before this conjunct.           *)
updateNodeInTree(op, arg, mm, hIdx, hp, nodeId, triggerDependencyCheck) ==
    IF IsNull(mm)
    THEN /\ UNCHANGED <<mindMap, history, historyIndex, clock>>
         /\ heap' = Sweep(hp)
         /\ lastCall' = Call(op, nodeId, NoIndex, Null, "")
    ELSE LET r == applyUpdate(Val(mm), hp, op, arg, nodeId, triggerDependencyCheck)
         IN  IF IsNull(r)
             THEN /\ UNCHANGED <<mindMap, history, historyIndex, clock>>
                  /\ heap' = Sweep(hp)
                  /\ lastCall' = Call(op, nodeId, NoIndex, Null, "")
             ELSE /\ commitToHistory(Val(r).clone, op, hIdx)
                  /\ heap' = Sweep(Val(r).heap)
                  /\ lastCall' = Call(op, nodeId, NoIndex, Val(r).dep, "")


-----------------------------------------------------------------------------
(* Documents the generation service returns and session files on disk *)

DEFAULT_TUNING ==
    [readerRole |-> "General Technical", aiPersona |-> "Helpful Expert",
     detailLevel |-> "Balanced"]

DEFAULT_THEME == "default"

Untitled == "Untitled Session"

(* The session fields after a session file is read: the file carries the  *)
(* original text and a session name, and neither tuning nor theme          *)
importedSession(sess) ==
    [sess EXCEPT !.textInput = "imported text", !.sessionName = "Imported"]

GenDoc ==
    MkNode("r", "R", << MkNode("a", "A", << MkNode("c", "C", <<>>) >>),
                        MkNode("b", "B", <<>>) >>)

(* A saved session: b has a two-step process, a watches b, and c still     *)
(* carries a flag raised by b although it no longer watches it.            *)
SavedDoc ==
    MkNode("r", "R",
       << [MkNode("a", "A",
              << [MkNode("c", "C", <<>>) EXCEPT
                     !.isFlaggedForReview = TRUE,
                     !.flaggedSourceIds = <<"b">>] >>)
             EXCEPT !.watchedNodeIds = <<"b">>],
          [MkNode("b", "B", <<>>) EXCEPT
              !.cachedProcess = << MkStep(1, 1), MkStep(2, 2) >>,
              !.processLocked = FALSE] >>)

(* A saved session with a chain of watchers and no flag: c watches a,      *)
(* a watches b.                                                            *)
ChainDoc ==
    MkNode("r", "R",
       << [MkNode("a", "A",
              << [MkNode("c", "C", <<>>) EXCEPT !.watchedNodeIds = <<"a">>] >>)
             EXCEPT !.watchedNodeIds = <<"b">>],
          MkNode("b", "B", <<>>) >>)

GenDocs == {GenDoc}
ImportDocs == {SavedDoc}

(* Inputs of the handlers *)
Labels == {"X"}
EditIds == {"b", "c"}
WatchChoices == { <<"a", <<"b">> >>, <<"a", <<>> >>, <<"c", <<"a">> >> }
ClearIds == {"a", "c"}
DeleteIds == {"a", "b", "r"}
RevealChoices == { <<"a">>, <<"c", "z">> }

(* The step ids the branches of a step point to *)
TargetsOf(step) ==
    IF IsNull(step.branches) THEN {}
    ELSE {Val(Val(step.branches)[j].targetStepId) :
             j \in {i \in 1..Len(Val(step.branches)) :
                       ~IsNull(Val(step.branches)[i].targetStepId)}}

(* crypto.randomUUID(): an id that no reachable step carries or refers to *)
randomUUID(hp) ==
    LET used == {hp[r].id : r \in DOMAIN hp}
                  \cup UNION {TargetsOf(hp[r]) : r \in DOMAIN hp}
    IN  CHOOSE x \in 11..(11 + Cardinality(used)) :
           /\ x \notin used
           /\ \A y \in 11..(x - 1) : y \in used

-----------------------------------------------------------------------------
(* Handlers *)

(* collapseRecursive, then the root expanded again *)
RECURSIVE collapseRecursive(_)
collapseRecursive(node) ==
    [node EXCEPT !.collapsed = TRUE,
                 !.children = [i \in 1..Len(@) |-> collapseRecursive(@[i])]]

importNormalise(importedMap) == [collapseRecursive(importedMap) EXCEPT !.collapsed = FALSE]

handleImportSession(raw) ==
    /\ IsNull(mindMap)
    /\ UNCHANGED <<processContent, steps, pending>>
    /\ LET parsed == JSONparse(raw, heap)
           importedMap == importNormalise(parsed.tree)
       IN  /\ mindMap' = Some(importedMap)
           /\ history' = << [data |-> importedMap, description |-> "import",
                             timestamp |-> clock] >>
           /\ historyIndex' = historyEffect(history')
           /\ heap' = Sweep(parsed.heap)
    /\ clock' = clock + 1
    /\ lastCall' = Call("import", NoId, NoIndex, Null, "")
    /\ session' = importedSession(session)
    /\ UNCHANGED <<tutorial, systemsViewData, systemsView>>

(* handleNodeAction('expand') on a node that has children *)
ToggleCollapse(id) ==
    /\ UNCHANGED appVars
    /\ ~IsNull(mindMap)
    /\ \E i \in 1..Len(NodesOf(Val(mindMap))) :
          /\ NodesOf(Val(mindMap))[i].id = id
          /\ Len(NodesOf(Val(mindMap))[i].children) > 0
    /\ UNCHANGED <<processContent, steps, pending>>
    /\ updateNodeInTree("toggle", Null, mindMap, historyIndex, heap, id, FALSE)

(* EditNodeModal.onSave *)
EditNode(id, label) ==
    /\ UNCHANGED appVars
    /\ UNCHANGED <<processContent, steps, pending>>
    /\ updateNodeInTree("edit", label, mindMap, historyIndex, heap, id, TRUE)

(* DocumentEditorModal.onUpdateDependencies *)
UpdateDependencies(id, watchedIds) ==
    /\ UNCHANGED appVars
    /\ UNCHANGED <<processContent, steps, pending>>
    /\ updateNodeInTree("watch", watchedIds, mindMap, historyIndex, heap, id, FALSE)

(* DocumentEditorModal.onClearFlag *)
ClearFlag(id) ==
    /\ UNCHANGED appVars
    /\ UNCHANGED <<processContent, steps, pending>>
    /\ updateNodeInTree("clear", Null, mindMap, historyIndex, heap, id, FALSE)

(* The detachment emptying the parent's child list *)
detachChild_DropSiblings(root, at, id) ==
    LET parentAt == SubSeq(at, 1, Len(at) - 1)
        RECURSIVE nodeAt(_, _)
        nodeAt(n, q) == IF q = <<>> THEN n ELSE nodeAt(n.children[Head(q)], Tail(q))
        parent == nodeAt(root, parentAt)
    IN  ReplaceAt(root, parentAt, [parent EXCEPT !.children = <<>>])

(* parent.children.filter(c => c.id !== id) on the node at position at *)
detachChild(root, at, id) ==
    LET parentAt == SubSeq(at, 1, Len(at) - 1)
        RECURSIVE nodeAt(_, _)
        nodeAt(n, q) == IF q = <<>> THEN n ELSE nodeAt(n.children[Head(q)], Tail(q))
        parent == nodeAt(root, parentAt)
        keep(c) == c.id # id
    IN  ReplaceAt(root, parentAt,
                  [parent EXCEPT !.children = SelectSeq(@, keep)])

(* handleNodeAction('delete', node) *)
DeleteNode(id) ==
    /\ UNCHANGED appVars
    /\ ~IsNull(mindMap)
    /\ UNCHANGED <<processContent, steps, pending>>
    /\ IF Val(mindMap).id = id
       THEN /\ mindMap' = Null
            /\ history' = <<>>
            /\ historyIndex' = historyEffect(history')
            /\ UNCHANGED clock
            /\ heap' = Sweep(heap)
            /\ lastCall' = Call("delete", id, NoIndex, Null, "")
       ELSE LET c == JSONclone(Val(mindMap), heap)
                target == findNodeAndPath(c.tree, id, <<>>)
            IN  IF ~IsNull(target) /\ ~IsNull(Val(target).parent)
                THEN LET detached == detachChild(c.tree, Val(target).at, id)
                         out == checkDependencies(detached, id)
                     IN  /\ commitToHistory(out, "delete", historyIndex)
                         /\ heap' = Sweep(c.heap)
                         /\ lastCall' = Call("delete", id, NoIndex,
                                Some([root |-> detached, id |-> id, out |-> out]), "")
                ELSE /\ UNCHANGED <<mindMap, history, historyIndex, heap, clock>>
                     /\ lastCall' = Call("delete", id, NoIndex, Null, "")

(* The undo button: restoreFromHistory(historyIndex - 1) *)
Undo ==
    /\ UNCHANGED appVars
    /\ ~IsNull(mindMap)
    /\ UNCHANGED <<processContent, steps, pending>>
    /\ restoreFromHistory(historyIndex - 1)
    /\ lastCall' = [Call("undo", NoId, Some(historyIndex - 1), Null, "") EXCEPT
                       !.before = Some([mindMap |-> Deref(Val(mindMap), heap),
                                        historyIndex |-> historyIndex])]

(* The redo button: restoreFromHistory(historyIndex + 1) *)
Redo ==
    /\ UNCHANGED appVars
    /\ ~IsNull(mindMap)
    /\ UNCHANGED <<processContent, steps, pending>>
    /\ restoreFromHistory(historyIndex + 1)
    /\ lastCall' = Call("redo", NoId, Some(historyIndex + 1), Null, "")

(* HistoryModal.onRestore *)
Restore(index) ==
    /\ UNCHANGED appVars
    /\ ~IsNull(mindMap)
    /\ UNCHANGED <<processContent, steps, pending>>
    /\ restoreFromHistory(index)
    /\ lastCall' = Call("restore", NoId, Some(index), Null, "")

(* What handleSearchReveal's state updater returns for the document prev *)
searchReveal(prev, hp, idsToExpand) ==
    LET c == JSONclone(prev, hp)
        RECURSIVE each(_, _, _)
        each(tree, changed, k) ==
            IF k > Len(idsToExpand) THEN [tree |-> tree, changed |-> changed]
            ELSE LET target == findNodeAndPath(tree, idsToExpand[k], <<>>)
                 IN  IF ~IsNull(target) /\ Val(target).node.collapsed
                     THEN each(ReplaceAt(tree, Val(target).at,
                                  [Val(target).node EXCEPT !.collapsed = FALSE]),
                               TRUE, k + 1)
                     ELSE each(tree, changed, k + 1)
        r == each(c.tree, FALSE, 1)
    IN  IF ~r.changed THEN [tree |-> prev, heap |-> hp]
        ELSE [tree |-> r.tree, heap |-> c.heap]

handleSearchReveal(idsToExpand) ==
    /\ UNCHANGED appVars
    /\ ~IsNull(mindMap)
    /\ UNCHANGED <<history, historyIndex, clock, processContent, steps, pending>>
    /\ LET r == searchReveal(Val(mindMap), heap, idsToExpand)
       IN  /\ mindMap' = Some(r.tree)
           /\ heap' = Sweep(r.heap)
    /\ lastCall' = Call("reveal", NoId, NoIndex, Null, "")

(* The two "Start New" buttons of the close-map dialog *)
CloseMap ==
    /\ ~IsNull(mindMap)
    /\ mindMap' = Null
    /\ history' = <<>>
    /\ historyIndex' = historyEffect(history')
    /\ lastCall' = Call("close", NoId, NoIndex, Null, "")
    /\ session' = [session EXCEPT !.textInput = "", !.sessionName = Untitled]
    /\ systemsViewData' = Null
    /\ systemsView' = Null
    /\ UNCHANGED <<clock, processContent, steps, pending, tutorial>>
    /\ heap' = Sweep(heap)


-----------------------------------------------------------------------------
(* Process editor (ProcessModal) *)

NodeById(root, id) == Val(findNodeAndPath(root, id, <<>>)).node

(* The step objects left with the numbers they had *)
renumber_Keep(hp, newSteps) == hp

(* newSteps.forEach((s, i) => s.stepNumber = i + 1): writes the objects *)
renumber(hp, newSteps) ==
    [r \in DOMAIN hp |->
        IF \E i \in 1..Len(newSteps) : newSteps[i] = r
        THEN [hp[r] EXCEPT !.stepNumber = CHOOSE i \in 1..Len(newSteps) : newSteps[i] = r]
        ELSE hp[r]]

(* handleNodeAction('process', node) on a node with a cached process *)
OpenProcess(id) ==
    /\ UNCHANGED appVars
    /\ ~IsNull(mindMap)
    /\ IsNull(processContent)
    /\ id \in IdsOf(Val(mindMap))
    /\ Len(NodeById(Val(mindMap), id).cachedProcess) > 0
    /\ processContent' = Some([id |-> id,
                               isLocked |-> NodeById(Val(mindMap), id).processLocked])
    /\ steps' = NodeById(Val(mindMap), id).cachedProcess
    /\ lastCall' = Call("open", id, NoIndex, Null, "")
    /\ UNCHANGED <<mindMap, history, historyIndex, heap, clock, pending>>

(* handleGenerationSelect('manual') for a process *)
ManualProcess(id) ==
    /\ UNCHANGED appVars
    /\ ~IsNull(mindMap)
    /\ IsNull(processContent)
    /\ id \in IdsOf(Val(mindMap))
    /\ Len(NodeById(Val(mindMap), id).cachedProcess) = 0
    /\ processContent' = Some([id |-> id, isLocked |-> FALSE])
    /\ UNCHANGED pending
    /\ LET fr == FreshRefs(DOMAIN heap, 1)
           hp == Alloc(heap, fr, << MkStep(randomUUID(heap), 1) >>)
       IN  /\ steps' = fr
           /\ updateNodeInTree("manual", fr, mindMap, historyIndex, hp, id, TRUE)

(* ProcessModal.onToggleLock *)
ToggleLock ==
    /\ UNCHANGED appVars
    /\ ~IsNull(processContent)
    /\ UNCHANGED <<steps, pending>>
    /\ LET newState == ~Val(processContent).isLocked
       IN  /\ updateNodeInTree("lock", newState, mindMap, historyIndex, heap,
                  Val(processContent).id, FALSE)
           /\ processContent' = Some([Val(processContent) EXCEPT !.isLocked = newState])

insertStepAfter(hp, ss, index) ==
    LET fr == FreshRefs(DOMAIN hp, 1)
        newSteps == SubSeq(ss, 1, index + 1) \o fr \o SubSeq(ss, index + 2, Len(ss))
    IN  [steps |-> newSteps,
         heap |-> renumber(Alloc(hp, fr, << MkStep(randomUUID(hp), 0) >>),
                           newSteps)]

(* The "Add Final Step" button: handleInsertStepAfter(steps.length - 1) *)
InsertStep ==
    /\ UNCHANGED appVars
    /\ ~IsNull(processContent)
    /\ ~Val(processContent).isLocked
    /\ Len(steps) < MaxSteps
    /\ UNCHANGED <<mindMap, history, historyIndex, clock, processContent, pending>>
    /\ LET r == insertStepAfter(heap, steps, Len(steps) - 1)
       IN  /\ steps' = r.steps
           /\ heap' = Sweep(r.heap)
    /\ lastCall' = Call("insert", NoId, Some(Len(steps) - 1), Null, "")

deleteStep(hp, ss, stepId) ==
    LET keep(r) == hp[r].id # stepId
        newSteps == SelectSeq(ss, keep)
    IN  [steps |-> newSteps, heap |-> renumber(hp, newSteps)]

(* handleDeleteStep(step.id) *)
DeleteStep(k) ==
    /\ UNCHANGED appVars
    /\ ~IsNull(processContent)
    /\ ~Val(processContent).isLocked
    /\ k \in 1..Len(steps)
    /\ UNCHANGED <<mindMap, history, historyIndex, clock, processContent, pending>>
    /\ LET r == deleteStep(heap, steps, heap[steps[k]].id)
       IN  /\ steps' = r.steps
           /\ heap' = Sweep(r.heap)
    /\ lastCall' = Call("remove", NoId, Some(k), Null, "")

(* ProcessModal.onSave(steps) *)
SaveProcess ==
    /\ UNCHANGED appVars
    /\ ~IsNull(processContent)
    /\ ~Val(processContent).isLocked
    /\ UNCHANGED <<processContent, steps, pending>>
    /\ updateNodeInTree("save", steps, mindMap, historyIndex, heap,
           Val(processContent).id, TRUE)

(* ProcessModal.onClose *)
CloseProcess ==
    /\ UNCHANGED appVars
    /\ ~IsNull(processContent)
    /\ processContent' = Null
    /\ steps' = <<>>
    /\ lastCall' = Call("dismiss", NoId, NoIndex, Null, "")
    /\ UNCHANGED <<mindMap, history, historyIndex, clock, pending>>
    /\ heap' = Sweep(heap)

-----------------------------------------------------------------------------
(* Generation calls: the handler up to its await, and its continuation *)

GenIds == {"b"}
Errors == {"QUOTA_EXCEEDED", "other"}

Closure(type, id) ==
    [type |-> type, id |-> id, mindMap |-> mindMap, historyIndex |-> historyIndex,
     sessionName |-> session.sessionName]

(* handleGenerate up to the await *)
StartGenerate ==
    /\ IsNull(mindMap)
    /\ IsNull(pending)
    /\ IsNull(tutorial)
    /\ session.textInput # ""
    /\ pending' = Some(Closure("map", NoId))
    /\ lastCall' = Call("start", NoId, NoIndex, Null, "")
    /\ systemsViewData' = Null
    /\ UNCHANGED <<mindMap, history, historyIndex, heap, clock, processContent, steps,
                   session, tutorial, systemsView>>

(* The text area of the landing page: setTextInput(e.target.value) *)
SetTextInput(text) ==
    /\ IsNull(mindMap)
    /\ IsNull(pending)
    /\ IsNull(tutorial)
    /\ session.textInput # text
    /\ session' = [session EXCEPT !.textInput = text]
    /\ lastCall' = Call("type", NoId, NoIndex, Null, "")
    /\ UNCHANGED <<mindMap, history, historyIndex, heap, clock, processContent, steps,
                   pending, tutorial, systemsViewData, systemsView>>

(* handleGenerationSelect('auto') / handleConfirmExpand up to the await *)
StartNodeGeneration(type, id) ==
    /\ UNCHANGED appVars
    /\ ~IsNull(mindMap)
    /\ IsNull(pending)
    /\ id \in IdsOf(Val(mindMap))
    /\ type = "details" => NodeById(Val(mindMap), id).cachedDetails = ""
    /\ type = "process" => Len(NodeById(Val(mindMap), id).cachedProcess) = 0
    /\ type = "expand" => Len(NodeById(Val(mindMap), id).children) = 0
    /\ pending' = Some(Closure(type, id))
    /\ lastCall' = Call("start", id, NoIndex, Null, "")
    /\ UNCHANGED <<mindMap, history, historyIndex, heap, clock, processContent, steps>>

(* handleAppError putting back the document of the render that made the call *)
handleAppError_Rollback(e) ==
    /\ lastCall' = Call("failed", Val(pending).id, NoIndex, Null,
                        IF e = "QUOTA_EXCEEDED" THEN "quota" ELSE "alert")
    /\ mindMap' = Val(pending).mindMap
    /\ UNCHANGED <<history, historyIndex, clock>>
    /\ heap' = Sweep(heap)

(* handleAppError(e) *)
handleAppError(e) ==
    /\ lastCall' = Call("failed", Val(pending).id, NoIndex, Null,
                        IF e = "QUOTA_EXCEEDED" THEN "quota" ELSE "alert")
    /\ UNCHANGED <<mindMap, history, historyIndex, clock>>
    /\ heap' = Sweep(heap)

(* The awaited call rejects: the catch branch *)
GenerationFails(e) ==
    /\ UNCHANGED appVars
    /\ ~IsNull(pending)
    /\ pending' = Null
    /\ UNCHANGED <<processContent, steps>>
    /\ handleAppError(e)

(* The awaited calls resolve: the rest of each try block, run in the render *)
(* that started the call.                                                   *)

(* handleGenerate after the await *)
GenerateSucceeds(data) ==
    /\ ~IsNull(pending)
    /\ Val(pending).type = "map"
    /\ pending' = Null
    /\ UNCHANGED <<processContent, steps>>
    /\ mindMap' = Some(data)
    /\ history' = << [data |-> data, description |-> "generate",
                      timestamp |-> clock] >>
    /\ historyIndex' = 0
    /\ clock' = clock + 1
    /\ lastCall' = Call("generated", NoId, NoIndex, Null, "")
    /\ session' = IF Val(pending).sessionName = Untitled
                  THEN [session EXCEPT !.sessionName = "Map: " \o data.label]
                  ELSE session
    /\ UNCHANGED <<tutorial, systemsViewData, systemsView>>
    /\ heap' = Sweep(heap)

(* runDetails after the await *)
DetailsSucceeds ==
    /\ UNCHANGED appVars
    /\ ~IsNull(pending)
    /\ Val(pending).type = "details"
    /\ pending' = Null
    /\ UNCHANGED <<processContent, steps>>
    /\ updateNodeInTree("details", "T", Val(pending).mindMap,
           Val(pending).historyIndex, heap, Val(pending).id, TRUE)

(* runExpand after the await *)
ExpandSucceeds ==
    /\ UNCHANGED appVars
    /\ ~IsNull(pending)
    /\ Val(pending).type = "expand"
    /\ pending' = Null
    /\ UNCHANGED <<processContent, steps>>
    /\ updateNodeInTree("expand", << MkNode("d", "D", <<>>) >>, Val(pending).mindMap,
           Val(pending).historyIndex, heap, Val(pending).id, FALSE)

(* runProcess after the await *)
ProcessSucceeds ==
    /\ UNCHANGED appVars
    /\ ~IsNull(pending)
    /\ Val(pending).type = "process"
    /\ pending' = Null
    /\ LET fr == FreshRefs(DOMAIN heap, 2)
           generated == Alloc(heap, fr, << MkStep(1, 1), MkStep(2, 2) >>)
           linked == autoLinkDecisions(generated, fr)
       IN  /\ processContent' = Some([id |-> Val(pending).id, isLocked |-> TRUE])
           /\ steps' = IF IsNull(processContent) THEN linked.steps ELSE steps
           /\ updateNodeInTree("process", linked.steps, Val(pending).mindMap,
                  Val(pending).historyIndex, linked.heap, Val(pending).id, TRUE)

-----------------------------------------------------------------------------
(* Specifications *)

(* App's useState initial values outside the document *)
AppInit ==
    /\ session = [textInput |-> "", sessionName |-> Untitled,
                  tuning |-> DEFAULT_TUNING, theme |-> DEFAULT_THEME]
    /\ tutorial = Null
    /\ systemsViewData = Null
    /\ systemsView = Null

Init ==
    /\ mindMap = Null
    /\ history = <<>>
    /\ historyIndex = -1
    /\ heap = <<>>
    /\ clock = 1
    /\ processContent = Null
    /\ steps = <<>>
    /\ pending = Null
    /\ lastCall = Call("init", NoId, NoIndex, Null, "")
    /\ AppInit

(* The document and its history *)
Commits ==
    \/ \E id \in {"r", "a"} : ToggleCollapse(id)
    \/ EditNode("b", "X")
    \/ \E id \in {"b", "r"} : DeleteNode(id)
    \/ \E data \in GenDocs : GenerateSucceeds(data)
    \/ \E raw \in ImportDocs : handleImportSession(raw)

Next ==
    \/ clock < MaxClock /\ Commits
    \/ Undo
    \/ Redo
    \/ \E index \in -1..Len(history) : Restore(index)
    \/ \E ids \in RevealChoices : handleSearchReveal(ids)
    \/ CloseMap
    \/ SetTextInput("typed text")
    \/ StartGenerate
    \/ \E e \in Errors : GenerationFails(e)

Spec == Init /\ [][Next]_vars

(* Generation calls in flight while the document is edited *)
AsyncCommits ==
    \/ \E id \in EditIds, l \in Labels : EditNode(id, l)
    \/ DeleteNode("b")
    \/ \E data \in GenDocs : GenerateSucceeds(data)
    \/ DetailsSucceeds
    \/ ExpandSucceeds
    \/ ProcessSucceeds

NextAsync ==
    \/ clock < MaxAsyncClock /\ AsyncCommits
    \/ SetTextInput("typed text")
    \/ StartGenerate
    \/ \E type \in {"details", "expand", "process"}, id \in GenIds :
          StartNodeGeneration(type, id)
    \/ \E e \in Errors : GenerationFails(e)
    \/ Undo
    \/ CloseMap
    \/ CloseProcess

SpecAsync == Init /\ [][NextAsync]_vars

(* Watch lists, flags and the dependency engine *)
DepsCommits ==
    \/ \E raw \in ImportDocs \cup GenDocs : handleImportSession(raw)
    \/ handleImportSession(ChainDoc)
    \/ \E id \in EditIds, l \in Labels : EditNode(id, l)
    \/ \E w \in WatchChoices : UpdateDependencies(w[1], w[2])
    \/ \E id \in ClearIds : ClearFlag(id)
    \/ \E id \in DeleteIds : DeleteNode(id)

NextDeps == clock < MaxDepsClock /\ DepsCommits

SpecDeps == Init /\ [][NextDeps]_vars

(* The process editor over a loaded document *)
EditorCommits ==
    \/ \E raw \in ImportDocs \cup GenDocs : handleImportSession(raw)
    \/ \E id \in GenIds : ManualProcess(id)
    \/ ToggleLock
    \/ SaveProcess

NextEditor ==
    \/ clock < MaxEditorClock /\ EditorCommits
    \/ \E id \in GenIds : OpenProcess(id)
    \/ InsertStep
    \/ \E k \in 1..MaxSteps : DeleteStep(k)
    \/ CloseProcess
    \/ Undo

SpecEditor == Init /\ [][NextEditor]_vars

(* The history stack under long runs of commits and restores *)
NextHist ==
    \/ clock < MaxHistClock /\ \E raw \in GenDocs : handleImportSession(raw)
    \/ clock < MaxHistClock /\ ToggleCollapse("r")
    \/ Undo
    \/ Redo
    \/ \E index \in -1..Len(history) : Restore(index)

SpecHist == Init /\ [][NextHist]_vars


-----------------------------------------------------------------------------------------------------------------------------------------------------
(* The tree utilities applied to every small tree *)

TreeIds == {"a", "b"}
LookupIds == TreeIds \cup {"z"}

(* Every tree of n nodes / forest of m nodes with ids in TreeIds *)
RECURSIVE TreesOfSize(_)
RECURSIVE ForestsOfSize(_)
TreesOfSize(n) ==
    {MkNode(id, "", kids) : id \in TreeIds, kids \in ForestsOfSize(n - 1)}
ForestsOfSize(m) ==
    IF m = 0 THEN { <<>> }
    ELSE UNION { { <<t>> \o f : t \in TreesOfSize(k), f \in ForestsOfSize(m - k) }
                 : k \in 1..m }

(* The positions of a tree in pre-order, a position being the child         *)
(* indexes followed from the root                                          *)
RECURSIVE PositionsOf(_)
PositionsOf(node) ==
    LET RECURSIVE Kids(_)
        Kids(i) == IF i > Len(node.children) THEN <<>>
                   ELSE [k \in 1..Len(PositionsOf(node.children[i])) |->
                            <<i>> \o PositionsOf(node.children[i])[k]]
                        \o Kids(i + 1)
    IN  << <<>> >> \o Kids(1)

RECURSIVE NodeAt(_, _)
NodeAt(node, pos) ==
    IF pos = <<>> THEN node ELSE NodeAt(node.children[Head(pos)], Tail(pos))

(* Labels "L1", "L2", ... given in pre-order, so that a label names a node *)
RECURSIVE Labelled(_, _)
Labelled(node, first) ==
    LET RECURSIVE Kids(_, _)
        Kids(i, next) ==
            IF i > Len(node.children) THEN <<>>
            ELSE <<Labelled(node.children[i], next)>>
                 \o Kids(i + 1, next + Len(NodesOf(node.children[i])))
    IN  [node EXCEPT !.label = "L" \o ToString(first),
                     !.children = Kids(1, first + 1)]

InputTrees == {Labelled(t, 1) : t \in UNION {TreesOfSize(n) : n \in 1..MaxNodes}}

InitTree ==
    /\ mindMap \in {Some(t) : t \in InputTrees}
    /\ history = <<>>
    /\ historyIndex = -1
    /\ heap = <<>>
    /\ clock = 1
    /\ processContent = Null
    /\ steps = <<>>
    /\ pending = Null
    /\ lastCall = Call("init", NoId, NoIndex, Null, "")
    /\ AppInit

(* findNodeAndPath(mindMap, id), as the render and the handlers call it *)
FindNode(id) ==
    /\ UNCHANGED appVars
    /\ lastCall' = [Call("find", id, NoIndex, Null, "") EXCEPT
                       !.result = Some(findNodeAndPath(Val(mindMap), id, <<>>))]
    /\ UNCHANGED <<mindMap, history, historyIndex, heap, clock, processContent,
                   steps, pending>>

(* calculateNodeNumber(mindMap, id) *)
NumberNode(id) ==
    /\ UNCHANGED appVars
    /\ lastCall' = [Call("number", id, NoIndex, Null, "") EXCEPT
                       !.result = Some(calculateNodeNumber(Val(mindMap), id, "1.0"))]
    /\ UNCHANGED <<mindMap, history, historyIndex, heap, clock, processContent,
                   steps, pending>>

NextTree ==
    \/ \E id \in LookupIds : FindNode(id)
    \/ \E id \in LookupIds : NumberNode(id)

SpecTree == InitTree /\ [][NextTree]_vars

-----------------------------------------------------------------------------
(* Process flow projection (ProcessFlowChart) *)

(* idMap.get(id) after steps.forEach(s => idMap.set(s.id, s)) *)
idMapGet(ss, id) ==
    LET hits == {k \in 1..Len(ss) : ss[k].id = id}
    IN  IF hits = {} THEN Null
        ELSE Some(ss[CHOOSE k \in hits : \A h \in hits : h <= k])

(* steps.find(s => s.stepNumber === n) *)
findByNumber(ss, n) ==
    LET hits == {k \in 1..Len(ss) : ss[k].stepNumber = n}
    IN  IF hits = {} THEN Null
        ELSE Some(ss[CHOOSE k \in hits : \A h \in hits : k <= h])

(* steps.reduce((prev, curr) => prev.stepNumber < curr.stepNumber ? prev : curr) *)
RECURSIVE reduceFirst(_, _, _)
reduceFirst(ss, prev, k) ==
    IF k > Len(ss) THEN prev
    ELSE reduceFirst(ss, IF prev.stepNumber < ss[k].stepNumber THEN prev ELSE ss[k],
                     k + 1)

firstStep(ss) == reduceFirst(ss, ss[1], 2)

(* The loop node naming the id of the step instead of its sequence number *)
loopNode_NamesId(step) ==
    [ id |-> <<"loop", step.id>>,
      data |-> [step EXCEPT !.action = "Loop to Step " \o ToString(step.id)],
      type |-> "step", label |-> Null, children |-> <<>> ]

(* The terminal node returned on a cycle; the random suffix of its id is   *)
(* left out.                                                               *)
loopNode(step) ==
    [ id |-> <<"loop", step.id>>,
      data |-> [step EXCEPT !.action = "Loop to Step " \o ToString(step.stepNumber)],
      type |-> "step", label |-> Null, children |-> <<>> ]

placeholderNode(branch) ==
    [ id |-> <<"missing">>, data |-> [action |-> "Undefined Path"],
      type |-> "placeholder", label |-> Some(branch.label), children |-> <<>> ]

(* An action step going on to the next step whether it ends the path or not *)
continues_Always(step) == TRUE

(* if (!step.isEndState) *)
continues(step) == ~step.isEndState

RECURSIVE buildTree(_, _, _)
buildTree(ss, step, visited) ==
    IF step.id \in visited THEN loopNode(step)
    ELSE
      LET newVisited == visited \cup {step.id}
          node == [ id |-> <<"step", step.id>>, data |-> step, type |-> "step",
                    label |-> Null, children |-> <<>> ]
      IN  IF step.type = "decision" /\ ~IsNull(step.branches)
          THEN LET bs == Val(step.branches)
                   RECURSIVE each(_)
                   each(j) ==
                       IF j > Len(bs) THEN <<>>
                       ELSE (IF ~IsNull(bs[j].targetStepId)
                             THEN LET targetStep ==
                                          idMapGet(ss, Val(bs[j].targetStepId))
                                  IN  IF ~IsNull(targetStep)
                                      THEN << [buildTree(ss, Val(targetStep), newVisited)
                                                 EXCEPT !.label = Some(bs[j].label)] >>
                                      ELSE <<>>
                             ELSE << placeholderNode(bs[j]) >>)
                            \o each(j + 1)
               IN  [node EXCEPT !.children = each(1)]
          ELSE IF continues(step)
               THEN LET next == findByNumber(ss, step.stepNumber + 1)
                    IN  IF ~IsNull(next)
                        THEN [node EXCEPT !.children =
                                  << buildTree(ss, Val(next), newVisited) >>]
                        ELSE node
               ELSE node

(* The root computed by ProcessFlowChart's useMemo *)
projectFlow(ss) ==
    IF Len(ss) = 0 THEN Null ELSE Some(buildTree(ss, firstStep(ss), {}))

(* The processes opened in the flow view: every list of up to MaxFlowSteps  *)
(* steps with up to MaxBranches branches in all, each branch unlinked or    *)
(* linked to a step of the list.  The step at position k of n has the id    *)
(* n + 1 - k.                                                               *)
FlowLabels == <<LabelYes, LabelNo, LabelRetry, LabelAbort>>

FlowStepChoices(k, n, budget) ==
    LET base == MkStep(n + 1 - k, k)
        targets == {Null} \cup {Some(id) : id \in 1..n}
    IN  {base, [base EXCEPT !.isEndState = TRUE], [base EXCEPT !.type = "decision"]}
        \cup UNION { { [base EXCEPT !.type = "decision",
                          !.branches = Some([j \in 1..m |->
                                               MkBranch(FlowLabels[j], t[j])])]
                       : t \in [1..m -> targets] }
                     : m \in 1..budget }

BranchCount(step) == IF IsNull(step.branches) THEN 0 ELSE Len(Val(step.branches))

RECURSIVE FlowLists(_, _, _)
FlowLists(k, n, budget) ==
    IF k > n THEN { <<>> }
    ELSE UNION { { <<st>> \o rest :
                     rest \in FlowLists(k + 1, n, budget - BranchCount(st)) }
                 : st \in FlowStepChoices(k, n, budget) }

FlowSeeds == UNION {FlowLists(1, n, MaxBranches) : n \in 1..MaxFlowSteps}

FlowDoc(list) ==
    MkNode("r", "R",
       << MkNode("a", "A", <<>>),
          [MkNode("b", "B", <<>>) EXCEPT !.cachedProcess = list,
                                         !.processLocked = FALSE] >>)

(* The state after importing a session and opening the process of node b *)
InitFlow ==
    \E list \in FlowSeeds :
       LET parsed == JSONparse(FlowDoc(list), <<>>)
           importedMap == importNormalise(parsed.tree)
       IN  /\ mindMap = Some(importedMap)
           /\ history = << [data |-> importedMap, description |-> "import",
                            timestamp |-> 1] >>
           /\ historyIndex = 0
           /\ heap = parsed.heap
           /\ clock = 2
           /\ processContent = Some([id |-> "b", isLocked |-> FALSE])
           /\ steps = NodeById(importedMap, "b").cachedProcess
           /\ pending = Null
           /\ lastCall = Call("open", "b", NoIndex, Null, "")
           /\ session = importedSession([textInput |-> "", sessionName |-> Untitled,
                                         tuning |-> DEFAULT_TUNING,
                                         theme |-> DEFAULT_THEME])
           /\ tutorial = Null
           /\ systemsViewData = Null
           /\ systemsView = Null

StepValues(ss, hp) == [k \in 1..Len(ss) |-> hp[ss[k]]]

(* Steps of the editor's list that are not objects of the document *)
EditedSteps ==
    Cardinality({k \in 1..Len(steps) : steps[k] \notin RefsOf(Val(mindMap))})

(* updateBranch(stepId, branchId, 'targetStepId', value): the step and the  *)
(* branch are copied, the other steps are kept                              *)
updateBranch(hp, ss, k, j, value) ==
    LET fr == FreshRefs(DOMAIN hp, 1)
        newStep == [hp[ss[k]] EXCEPT !.branches =
                       Some([Val(@) EXCEPT ![j].targetStepId = value])]
    IN  [steps |-> [ss EXCEPT ![k] = fr[1]], heap |-> Alloc(hp, fr, <<newStep>>)]

(* The target select of a branch: "" (no target) or the id of a step *)
Relink(k, j, value) ==
    /\ UNCHANGED appVars
    /\ ~IsNull(processContent)
    /\ ~Val(processContent).isLocked
    /\ EditedSteps < MaxEdited
    /\ k \in 1..Len(steps)
    /\ ~IsNull(heap[steps[k]].branches)
    /\ j \in 1..Len(Val(heap[steps[k]].branches))
    /\ value \in {Null} \cup {Some(heap[steps[i]].id) : i \in 1..Len(steps)}
    /\ value # Val(heap[steps[k]].branches)[j].targetStepId
    /\ UNCHANGED <<mindMap, history, historyIndex, clock, processContent, pending>>
    /\ LET r == updateBranch(heap, steps, k, j, value)
       IN  /\ steps' = r.steps
           /\ heap' = Sweep(r.heap)
    /\ lastCall' = Call("relink", NoId, Some(k), Null, "")

(* ProcessFlowChart rendered on the editor's list *)
RenderFlow ==
    /\ UNCHANGED appVars
    /\ ~IsNull(processContent)
    /\ lastCall' = [Call("flow", NoId, NoIndex, Null, "") EXCEPT
                       !.result = Some([steps |-> StepValues(steps, heap),
                                        root |-> projectFlow(StepValues(steps, heap))])]
    /\ UNCHANGED <<mindMap, history, historyIndex, heap, clock, processContent,
                   steps, pending>>

NextFlow ==
    \/ RenderFlow
    \/ \E k \in 1..MaxFlowSteps : DeleteStep(k)
    \/ EditedSteps < MaxEdited /\ InsertStep
    \/ \E k \in 1..MaxFlowSteps, j \in 1..MaxBranches :
          \E value \in {Null} \cup {Some(id) : id \in 1..MaxFlowSteps} :
             Relink(k, j, value)

SpecFlow == InitFlow /\ [][NextFlow]_vars

-----------------------------------------------------------------------------
(* The auto-linker applied to generated processes *)

LinkLabels == {LabelYes, LabelNo, LabelRetry, LabelAbort, LabelOK}

(* The steps generateProcessFlow can return at position k of n: an action,  *)
(* a decision without a branches field, or a decision with up to budget     *)
(* branches, a branch unlinked or linked to the first step                  *)
LinkStepChoices(k, n, budget) ==
    LET base == MkStep(n + 1 - k, k)
        targets == {Null, Some(n)}
    IN  {base, [base EXCEPT !.type = "decision"]}
        \cup UNION { { [base EXCEPT !.type = "decision",
                          !.branches = Some([j \in 1..m |-> MkBranch(l[j], t[j])])]
                       : l \in [1..m -> LinkLabels], t \in [1..m -> targets] }
                     : m \in 0..budget }

RECURSIVE LinkLists(_, _, _)
LinkLists(k, n, budget) ==
    IF k > n THEN { <<>> }
    ELSE UNION { { <<st>> \o rest :
                     rest \in LinkLists(k + 1, n, budget - BranchCount(st)) }
                 : st \in LinkStepChoices(k, n, budget) }

LinkInputs == UNION {LinkLists(1, n, MaxLinkBranches) : n \in 0..MaxLinkSteps}

(* generateProcessFlow has returned list *)
InitLink ==
    /\ mindMap = Null
    /\ history = <<>>
    /\ historyIndex = -1
    /\ heap = <<>>
    /\ clock = 1
    /\ processContent = Null
    /\ steps = <<>>
    /\ pending = Null
    /\ AppInit
    /\ \E list \in LinkInputs :
         lastCall = [Call("generated", NoId, NoIndex, Null, "") EXCEPT
                        !.result = Some(list)]

(* steps = autoLinkDecisions(steps) on the objects generateProcessFlow has  *)
(* just parsed                                                              *)
AutoLink ==
    /\ UNCHANGED appVars
    /\ lastCall.op = "generated"
    /\ LET list == Val(lastCall.result)
           fr == FreshRefs(DOMAIN heap, Len(list))
           generated == Alloc(heap, fr, list)
           linked == autoLinkDecisions(generated, fr)
       IN  lastCall' = [Call("autolink", NoId, NoIndex, Null, "") EXCEPT
                           !.result = Some([steps |-> fr, before |-> generated,
                                            out |-> linked.steps,
                                            after |-> linked.heap])]
    /\ UNCHANGED <<mindMap, history, historyIndex, heap, clock, processContent,
                   steps, pending>>

NextLink == AutoLink

SpecLink == InitLink /\ [][NextLink]_vars

-----------------------------------------------------------------------------
(* Systems view tree (buildSystemTree) *)

(* data.actors.find(a => a.id === id) *)
findActor(data, id) ==
    IF \E n \in 1..Len(data.actors) : data.actors[n].id = id
    THEN Some(data.actors[CHOOSE n \in 1..Len(data.actors) :
                 /\ data.actors[n].id = id
                 /\ \A h \in 1..(n - 1) : data.actors[h].id # id])
    ELSE Null

(* The actors at either end of an interaction carrying dataFilter *)
relevantActors(data, dataFilter) ==
    IF IsNull(dataFilter) THEN {}
    ELSE UNION { {data.interactions[i].source, data.interactions[i].target}
                   : i \in {h \in 1..Len(data.interactions) :
                               data.interactions[h].data = Val(dataFilter)} }

(* The connection check following outgoing interactions only *)
linkTarget_SourceOnly(link, actorId, visited) ==
    IF link.source = actorId /\ link.target \notin visited
    THEN Some([targetId |-> link.target, prefix |-> "-> "])
    ELSE Null

(* The connection check of one interaction seen from actorId: the actor at  *)
(* the other end when it is not visited yet, and the direction prefix       *)
linkTarget(link, actorId, visited) ==
    IF link.source = actorId /\ link.target \notin visited
    THEN Some([targetId |-> link.target, prefix |-> "-> "])
    ELSE IF link.target = actorId /\ link.source \notin visited
         THEN Some([targetId |-> link.source, prefix |-> "<- "])
         ELSE Null

(* The data filter letting every interaction through *)
passesFilter_Always(link, dataFilter) == TRUE

(* if (dataFilter && link.data !== dataFilter) return *)
passesFilter(link, dataFilter) ==
    IsNull(dataFilter) \/ link.data = Val(dataFilter)

(* data.interactions.forEach from interaction i on: the children collected  *)
(* and the visited set                                                      *)
RECURSIVE collectChildren(_, _, _, _, _, _)
collectChildren(data, dataFilter, actorId, visited, childrenActors, i) ==
    IF i > Len(data.interactions)
    THEN [childrenActors |-> childrenActors, visited |-> visited]
    ELSE LET link == data.interactions[i]
             hit == IF passesFilter(link, dataFilter)
                    THEN linkTarget(link, actorId, visited) ELSE Null
         IN  IF /\ ~IsNull(hit)
                /\ ~IsNull(findActor(data, Val(hit).targetId))
                /\ (IsNull(dataFilter)
                    \/ Val(hit).targetId \in relevantActors(data, dataFilter))
             THEN collectChildren(data, dataFilter, actorId,
                      visited \cup {Val(hit).targetId},
                      Append(childrenActors,
                             [actor |-> Val(findActor(data, Val(hit).targetId)),
                              interaction |-> Val(hit).prefix \o link.data]),
                      i + 1)
             ELSE collectChildren(data, dataFilter, actorId, visited,
                                  childrenActors, i + 1)

(* buildNode(actor) with the visited set, and childrenActors.map from child *)
(* c on: the node or nodes built and the visited set afterwards             *)
RECURSIVE buildNode(_, _, _, _)
RECURSIVE mapChildren(_, _, _, _, _)
buildNode(data, dataFilter, actor, visited) ==
    LET found == collectChildren(data, dataFilter, actor.id, visited, <<>>, 1)
        built == mapChildren(data, dataFilter, found.childrenActors,
                             found.visited, 1)
    IN  [node |-> [id |-> actor.id, description |-> actor.type,
                   linkLabel |-> "", children |-> built.nodes],
         visited |-> built.visited]

mapChildren(data, dataFilter, childrenActors, visited, c) ==
    IF c > Len(childrenActors) THEN [nodes |-> <<>>, visited |-> visited]
    ELSE LET first == buildNode(data, dataFilter, childrenActors[c].actor, visited)
             rest == mapChildren(data, dataFilter, childrenActors,
                                 first.visited, c + 1)
         IN  [nodes |-> << [first.node EXCEPT
                               !.linkLabel = childrenActors[c].interaction] >>
                           \o rest.nodes,
              visited |-> rest.visited]

buildSystemTree(data, rootId, dataFilter) ==
    LET rootActor == findActor(data, rootId)
    IN  IF IsNull(rootActor) THEN Null
        ELSE Some(buildNode(data, dataFilter, Val(rootActor), {rootId}).node)

(* The ids of the nodes d3.hierarchy lays out for a tree, in pre-order *)
RECURSIVE TreeIdsOf(_)
RECURSIVE ForestIdsOf(_)
TreeIdsOf(node) == <<node.id>> \o ForestIdsOf(node.children)
ForestIdsOf(nodes) ==
    IF nodes = <<>> THEN <<>> ELSE TreeIdsOf(Head(nodes)) \o ForestIdsOf(Tail(nodes))

ActorIds == 1..MaxActors

Payloads == {"X", "Y"}

(* The interaction list with the endpoints and payloads e[1], ..., e[n]:   *)
(* any two ids, self-loops, parallel and opposite edges included            *)
Interactions(n, e) ==
    [i \in 1..n |-> [id |-> i, source |-> e[i][1], target |-> e[i][2],
                     data |-> e[i][3]]]

(* Actor lists: the ids of a non-empty set in ascending order *)
RECURSIVE ActorList(_)
ActorList(ids) ==
    IF ids = {} THEN <<>>
    ELSE LET m == CHOOSE x \in ids : \A y \in ids : x <= y
         IN  << [id |-> m, name |-> m, type |-> "system"] >> \o ActorList(ids \ {m})

(* SystemsViewModal's own state when it is mounted *)
ViewState(rootId, dataFilter) ==
    [rootId |-> rootId, dataFilter |-> dataFilter, editingCell |-> Null]

(* A session with the systems view data is loaded and the view is shown *)
SystemsShown(data, view) ==
    LET parsed == JSONparse(GenDoc, <<>>)
        importedMap == importNormalise(parsed.tree)
    IN  /\ mindMap = Some(importedMap)
        /\ history = << [data |-> importedMap, description |-> "import",
                         timestamp |-> 1] >>
        /\ historyIndex = 0
        /\ heap = parsed.heap
        /\ clock = 2
        /\ processContent = Null
        /\ steps = <<>>
        /\ pending = Null
        /\ lastCall = Call("systems", NoId, NoIndex, Null, "")
        /\ session = importedSession([textInput |-> "", sessionName |-> Untitled,
                                      tuning |-> DEFAULT_TUNING,
                                      theme |-> DEFAULT_THEME])
        /\ tutorial = Null
        /\ systemsViewData = Some(data)
        /\ systemsView = Some(view)

InitSystems ==
    \E ids \in (SUBSET ActorIds) \ {{}}, rootId \in ActorIds, n \in 0..MaxInteractions :
        \E e \in [1..n -> ActorIds \X ActorIds \X {"X"}] :
            SystemsShown([actors |-> ActorList(ids),
                          interactions |-> Interactions(n, e)],
                         ViewState(rootId, Null))

(* The root is the one the default root detection picks: data.actors[0] *)
InitDataFlow ==
    \E dataFilter \in {Null} \cup {Some(f) : f \in Payloads}, n \in 0..MaxInteractions :
        \E e \in [1..n -> ActorIds \X ActorIds \X Payloads] :
            SystemsShown([actors |-> ActorList(ActorIds),
                          interactions |-> Interactions(n, e)],
                         ViewState(ActorList(ActorIds)[1].id, dataFilter))

(* treeData = buildSystemTree(data, rootId, filter || undefined) *)
BuildSystemTree ==
    /\ ~IsNull(systemsView)
    /\ lastCall.op # "tree"
    /\ lastCall' = [Call("tree", NoId, NoIndex, Null, "") EXCEPT
                       !.result = Some([tree |->
                           buildSystemTree(Val(systemsViewData),
                                           Val(systemsView).rootId,
                                           Val(systemsView).dataFilter)])]
    /\ UNCHANGED <<mindMap, history, historyIndex, heap, clock, processContent,
                   steps, pending>>
    /\ UNCHANGED appVars

NextSystems == BuildSystemTree

SpecSystems == InitSystems /\ [][NextSystems]_vars

NextDataFlow == BuildSystemTree

SpecDataFlow == InitDataFlow /\ [][NextDataFlow]_vars

-----------------------------------------------------------------------------
(* Systems view editing (SystemsViewModal actions and the matrix) *)

(* String.prototype.trim for spaces *)
RECURSIVE trim(_)
trim(str) ==
    IF str = <<>> THEN <<>>
    ELSE IF Head(str) = " " THEN trim(Tail(str))
    ELSE IF str[Len(str)] = " " THEN trim(SubSeq(str, 1, Len(str) - 1))
    ELSE str

(* str.replace(/\s+/g, '-'): every run of spaces becomes one hyphen *)
RECURSIVE replaceSpaces(_)
replaceSpaces(str) ==
    IF str = <<>> THEN <<>>
    ELSE IF Head(str) = " "
         THEN IF Len(str) > 1 /\ str[2] = " "
              THEN replaceSpaces(Tail(str))
              ELSE <<"-">> \o replaceSpaces(Tail(str))
         ELSE <<Head(str)>> \o replaceSpaces(Tail(str))

(* The id handleAddActor derives from the name typed *)
actorIdOf(newActorName) == toLowerCase(replaceSpaces(trim(newActorName)))

(* handleAddActor: the data handed to onUpdate, or data when it returns *)
addActor(data, newActorName) ==
    IF trim(newActorName) = <<>> THEN data
    ELSE [data EXCEPT !.actors =
             Append(@, [id |-> actorIdOf(newActorName),
                        name |-> trim(newActorName), type |-> "system"])]

(* crypto.randomUUID() for an interaction: an id no interaction carries *)
interactionUUID(data) ==
    CHOOSE u \in 1..(Len(data.interactions) + 1) :
        /\ \A i \in 1..Len(data.interactions) : data.interactions[i].id # u
        /\ \A v \in 1..(u - 1) :
              \E i \in 1..Len(data.interactions) : data.interactions[i].id = v

(* handleAddInteraction with a non-blank activity *)
addInteraction(data, cell, newData) ==
    [data EXCEPT !.interactions =
        Append(@, [id |-> interactionUUID(data), source |-> cell.source,
                   target |-> cell.target,
                   data |-> IF newData = "" THEN "Signal" ELSE newData])]

(* handleDeleteInteraction *)
deleteInteraction(data, id) ==
    [data EXCEPT !.interactions = SelectSeq(@, LAMBDA i : i.id # id)]

(* handleDeleteActor *)
deleteActor(data, actorId) ==
    [actors |-> SelectSeq(data.actors, LAMBDA a : a.id # actorId),
     interactions |-> SelectSeq(data.interactions,
                         LAMBDA i : i.source # actorId /\ i.target # actorId)]

(* The key of a matrix cell: `${s}-${t}` *)
cellKey(s, t) == s \o <<"-">> \o t

(* matrixData.cellMap.get(key): the interactions pushed under key, in list  *)
(* order, or nothing when no interaction has that key                       *)
cellMapGet(data, key) ==
    LET cell == SelectSeq(data.interactions,
                          LAMBDA link : cellKey(link.source, link.target) = key)
    IN  IF cell = <<>> THEN Null ELSE Some(cell)

IdA == <<"a">>
IdC == <<"c">>

(* The names typed into the add-actor box *)
ActorNames == { <<"a", " ", "b">>, <<"b", " ", "c">> }

(* The generated systems view the edits start from *)
EditData ==
    [actors |-> << [id |-> IdA, name |-> <<"A">>, type |-> "system"],
                   [id |-> IdC, name |-> <<"C">>, type |-> "system"] >>,
     interactions |-> <<>>]

InitEdit == SystemsShown(EditData, ViewState(IdA, Null))

sysFrame ==
    UNCHANGED <<mindMap, history, historyIndex, heap, clock, processContent,
                steps, pending, session, tutorial>>

(* The Add button of the add-actor box *)
AddActor(newActorName) ==
    /\ ~IsNull(systemsView)
    /\ IsNull(Val(systemsView).editingCell)
    /\ Len(Val(systemsViewData).actors) < Len(EditData.actors) + MaxAddedActors
    /\ systemsViewData' = Some(addActor(Val(systemsViewData), newActorName))
    /\ lastCall' = Call("addActor", NoId, NoIndex, Null, "")
    /\ UNCHANGED systemsView
    /\ sysFrame

(* A click on a matrix cell: setEditingCell({source: row.id, target: col.id}) *)
EditCell(s, t) ==
    /\ ~IsNull(systemsView)
    /\ IsNull(Val(systemsView).editingCell)
    /\ \E n, m \in 1..Len(Val(systemsViewData).actors) :
          /\ Val(systemsViewData).actors[n].id = s
          /\ Val(systemsViewData).actors[m].id = t
    /\ systemsView' = Some([Val(systemsView) EXCEPT
                               !.editingCell = Some([source |-> s, target |-> t])])
    /\ lastCall' = Call("editCell", NoId, NoIndex, Null, "")
    /\ UNCHANGED systemsViewData
    /\ sysFrame

(* The close button of the cell editor *)
CloseCell ==
    /\ ~IsNull(systemsView)
    /\ ~IsNull(Val(systemsView).editingCell)
    /\ systemsView' = Some([Val(systemsView) EXCEPT !.editingCell = Null])
    /\ lastCall' = Call("closeCell", NoId, NoIndex, Null, "")
    /\ UNCHANGED systemsViewData
    /\ sysFrame

(* The Add Interaction button of the cell editor *)
AddInteraction(newData) ==
    /\ ~IsNull(systemsView)
    /\ ~IsNull(Val(systemsView).editingCell)
    /\ Len(Val(systemsViewData).interactions) < MaxLinks
    /\ systemsViewData' = Some(addInteraction(Val(systemsViewData),
                                  Val(Val(systemsView).editingCell), newData))
    /\ lastCall' = Call("addInteraction", NoId, NoIndex, Null, "")
    /\ UNCHANGED systemsView
    /\ sysFrame

(* The delete button of an interaction listed in the cell editor *)
DeleteInteraction(id) ==
    /\ ~IsNull(systemsView)
    /\ ~IsNull(Val(systemsView).editingCell)
    /\ LET cell == cellMapGet(Val(systemsViewData),
                       cellKey(Val(Val(systemsView).editingCell).source,
                               Val(Val(systemsView).editingCell).target))
       IN  /\ ~IsNull(cell)
           /\ \E n \in 1..Len(Val(cell)) : Val(cell)[n].id = id
    /\ systemsViewData' = Some(deleteInteraction(Val(systemsViewData), id))
    /\ lastCall' = Call("deleteInteraction", NoId, NoIndex, Null, "")
    /\ UNCHANGED systemsView
    /\ sysFrame

(* The Center On select of the map view *)
SelectRoot(actorId) ==
    /\ ~IsNull(systemsView)
    /\ IsNull(Val(systemsView).editingCell)
    /\ Val(systemsView).rootId # actorId
    /\ \E n \in 1..Len(Val(systemsViewData).actors) :
          Val(systemsViewData).actors[n].id = actorId
    /\ systemsView' = Some([Val(systemsView) EXCEPT !.rootId = actorId])
    /\ lastCall' = Call("selectRoot", NoId, NoIndex, Null, "")
    /\ UNCHANGED systemsViewData
    /\ sysFrame

(* Delete Actor in the menu of a node of the tree *)
DeleteActor(actorId) ==
    /\ ~IsNull(systemsView)
    /\ IsNull(Val(systemsView).editingCell)
    /\ LET treeData == buildSystemTree(Val(systemsViewData), Val(systemsView).rootId,
                                       Val(systemsView).dataFilter)
       IN  /\ ~IsNull(treeData)
           /\ includes(TreeIdsOf(Val(treeData)), actorId)
    /\ systemsViewData' = Some(deleteActor(Val(systemsViewData), actorId))
    /\ lastCall' = [Call("deleteActor", NoId, NoIndex, Null, "") EXCEPT
                       !.result = Some(actorId)]
    /\ UNCHANGED systemsView
    /\ sysFrame

NextEdit ==
    \/ \E name \in ActorNames : AddActor(name)
    \/ \E s, t \in {actorIdOf(name) : name \in ActorNames} \cup {IdA, IdC} : EditCell(s, t)
    \/ CloseCell
    \/ AddInteraction("")
    \/ \E id \in 1..MaxLinks : DeleteInteraction(id)
    \/ \E id \in {actorIdOf(name) : name \in ActorNames} \cup {IdA, IdC} : SelectRoot(id)
    \/ \E id \in {actorIdOf(name) : name \in ActorNames} \cup {IdA, IdC} : DeleteActor(id)

SpecEdit == InitEdit /\ [][NextEdit]_vars

-----------------------------------------------------------------------------
(* Tutorial and landing page *)

(* TUTORIAL_SESSION *)
TutorialDoc == MkNode("t", "ADS-C System Overview", << MkNode("u", "Definition", <<>>) >>)

TutorialSession ==
    [textInput |-> "ADS-C ...", sessionName |-> "Tutorial: ADS-C Protocol",
     tuning |-> DEFAULT_TUNING, theme |-> DEFAULT_THEME]

(* The document, history and session fields a tutorial run starts from *)
MainState == [mindMap |-> mindMap, history |-> history, session |-> session]

(* handleStartTutorial, the Tutorial button of the landing page *)
handleStartTutorial ==
    /\ IsNull(mindMap)
    /\ IsNull(tutorial)
    /\ mindMap' = Some(TutorialDoc)
    /\ session' = TutorialSession
    /\ history' = << [data |-> TutorialDoc, description |-> "Tutorial Start",
                      timestamp |-> clock] >>
    /\ historyIndex' = historyEffect(history')
    /\ clock' = clock + 1
    /\ tutorial' = Some(0)
    /\ lastCall' = [Call("startTutorial", NoId, NoIndex, Null, "") EXCEPT
                       !.before = Some(MainState)]
    /\ UNCHANGED <<processContent, steps, pending, systemsViewData, systemsView>>
    /\ heap' = Sweep(heap)

(* handleEndTutorial without its setHistory([]) *)
handleEndTutorial_KeepHistory ==
    /\ tutorial' = Null
    /\ mindMap' = Null
    /\ history' = history
    /\ historyIndex' = historyEffect(history')
    /\ session' = [session EXCEPT !.sessionName = Untitled, !.textInput = ""]
    /\ lastCall' = [Call("endTutorial", NoId, NoIndex, Null, "") EXCEPT
                       !.before = lastCall.before]
    /\ UNCHANGED <<clock, processContent, steps, pending, systemsViewData,
                   systemsView>>
    /\ heap' = Sweep(heap)

(* handleEndTutorial, TutorialOverlay's onComplete *)
handleEndTutorial ==
    /\ tutorial' = Null
    /\ mindMap' = Null
    /\ history' = <<>>
    /\ historyIndex' = historyEffect(history')
    /\ session' = [session EXCEPT !.sessionName = Untitled, !.textInput = ""]
    /\ lastCall' = [Call("endTutorial", NoId, NoIndex, Null, "") EXCEPT
                       !.before = lastCall.before]
    /\ UNCHANGED <<clock, processContent, steps, pending, systemsViewData,
                   systemsView>>
    /\ heap' = Sweep(heap)

(* TutorialOverlay.handleNext *)
TutorialNext ==
    /\ ~IsNull(tutorial)
    /\ IF Val(tutorial) < TutorialSteps - 1
       THEN /\ tutorial' = Some(Val(tutorial) + 1)
            /\ lastCall' = [Call("tutorialNext", NoId, NoIndex, Null, "") EXCEPT
                               !.before = lastCall.before]
            /\ UNCHANGED <<mindMap, history, historyIndex, heap, clock,
                           processContent, steps, pending, session,
                           systemsViewData, systemsView>>
       ELSE handleEndTutorial

(* TutorialOverlay.handlePrev *)
TutorialPrev ==
    /\ ~IsNull(tutorial)
    /\ Val(tutorial) > 0
    /\ tutorial' = Some(Val(tutorial) - 1)
    /\ lastCall' = [Call("tutorialPrev", NoId, NoIndex, Null, "") EXCEPT
                       !.before = lastCall.before]
    /\ UNCHANGED <<mindMap, history, historyIndex, heap, clock, processContent,
                   steps, pending, session, systemsViewData, systemsView>>

(* The close button of the tutorial card: onComplete *)
TutorialDismiss ==
    /\ ~IsNull(tutorial)
    /\ handleEndTutorial

(* A select of the landing page: setTuning(prev => ({...prev, detailLevel})) *)
SetDetailLevel(value) ==
    /\ IsNull(mindMap)
    /\ IsNull(pending)
    /\ session.tuning.detailLevel # value
    /\ session' = [session EXCEPT !.tuning.detailLevel = value]
    /\ lastCall' = Call("tuning", NoId, NoIndex, Null, "")
    /\ UNCHANGED <<mindMap, history, historyIndex, heap, clock, processContent, steps,
                   pending, tutorial, systemsViewData, systemsView>>

(* The page under the tutorial overlay takes no input *)
UserInput == IsNull(tutorial)

SessionCommits ==
    \/ ToggleCollapse("r")
    \/ handleImportSession(GenDoc)
    \/ handleStartTutorial

NextSession ==
    \/ clock < MaxSessionClock /\ UserInput /\ SessionCommits
    \/ UserInput /\ SetTextInput("typed text")
    \/ UserInput /\ SetDetailLevel("Detailed")
    \/ UserInput /\ StartGenerate
    \/ UserInput /\ DeleteNode("r")
    \/ UserInput /\ CloseMap
    \/ UserInput /\ Undo
    \/ UserInput /\ Redo
    \/ clock < MaxSessionClock /\ GenerateSucceeds(GenDoc)
    \/ \E e \in Errors : GenerationFails(e)
    \/ TutorialNext
    \/ TutorialPrev
    \/ TutorialDismiss

SpecSession == Init /\ [][NextSession]_vars

-----
(* Properties *)

docVars == <<mindMap, history, historyIndex>>

(* The document and the history as JSON.stringify would write them *)
LiveView(mm, hp) == IF IsNull(mm) THEN Null ELSE Some(Deref(Val(mm), hp))
HistoryView(h, hp) ==
    [i \in 1..Len(h) |-> [h[i] EXCEPT !.data = Deref(h[i].data, hp)]]

Timestamps(h) == {h[i].timestamp : i \in 1..Len(h)}

UpdateOps == {"toggle", "edit", "watch", "clear", "manual", "lock", "save",
              "details", "expand", "process"}

(* C1: whenever the history is non-empty, the snapshot at the current      *)
(* history index is equal to the live document.                            *)
C1_SnapshotAtIndexIsLive ==
    Len(history) > 0 =>
        /\ ~IsNull(mindMap)
        /\ historyIndex \in 0..(Len(history) - 1)
        /\ Deref(history[historyIndex + 1].data, heap) = Deref(Val(mindMap), heap)

(* C2: the content of a committed snapshot, its cached steps and their      *)
(* stepNumber included, never changes, and no two snapshots share a step    *)
(* object.                                                                  *)
C2_SnapshotsImmutable ==
    [][ /\ \A i \in 1..Len(history), j \in 1..Len(history') :
              history[i].timestamp = history'[j].timestamp =>
                  Deref(history[i].data, heap) = Deref(history'[j].data, heap')
        /\ \A i, j \in 1..Len(history') :
              i # j => RefsOf(history'[i].data) \cap RefsOf(history'[j].data) = {}
      ]_vars

CommitOps == UpdateOps \cup {"delete"}

(* A step of commitToHistory on a loaded document *)
IsCommitStep == lastCall'.op \in CommitOps /\ clock' = clock + 1

C4_CapacityEvictsOldest ==
    [][ /\ Len(history') <= HistoryLimit
        /\ (IsCommitStep /\ Len(history) = HistoryLimit
                         /\ historyIndex = Len(history) - 1) =>
              /\ Len(history') = HistoryLimit
              /\ SubSeq(history', 1, HistoryLimit - 1) = Tail(history)
              /\ history'[HistoryLimit].timestamp = clock
              /\ historyIndex' = HistoryLimit - 1
      ]_vars

(* HistoryLimit + 1 commits in a row: the first is gone, ten remain *)
C4_Witness ==
    /\ Len(history) = HistoryLimit
    /\ \A i \in 1..Len(history) : history[i].timestamp = i + 1
    /\ historyIndex = HistoryLimit - 1

IsRestoreStep == lastCall'.op \in {"undo", "redo", "restore"}

(* C5: restore(index) out of [0, length) changes nothing; in range it sets  *)
(* the live document to that snapshot's data and the index to index, and    *)
(* leaves the history sequence as it was.                                   *)
C5_RestoreFrame ==
    [][ IsRestoreStep =>
          IF Val(lastCall'.index) >= 0 /\ Val(lastCall'.index) < Len(history)
          THEN /\ LiveView(mindMap', heap')
                    = Some(Deref(history[Val(lastCall'.index) + 1].data, heap))
               /\ historyIndex' = Val(lastCall'.index)
               /\ HistoryView(history', heap') = HistoryView(history, heap)
          ELSE /\ LiveView(mindMap', heap') = LiveView(mindMap, heap)
               /\ historyIndex' = historyIndex
               /\ HistoryView(history', heap') = HistoryView(history, heap)
      ]_vars

(* restored backward, the later entries still in the stack *)
C5_Witness ==
    /\ lastCall.op = "restore"
    /\ lastCall.index = Some(0)
    /\ historyIndex = 0
    /\ Len(history) = 2

(* C6: undo at index 0 and redo at the last index change nothing; undo at   *)
(* an index above 0 followed at once by redo returns the live document and  *)
(* the index to their values before the undo.                               *)
C6_UndoRedoRoundTrip ==
    [][ /\ (lastCall'.op = "undo" /\ historyIndex = 0) =>
              /\ LiveView(mindMap', heap') = LiveView(mindMap, heap)
              /\ UNCHANGED <<history, historyIndex>>
        /\ (lastCall'.op = "redo" /\ historyIndex = Len(history) - 1) =>
              /\ LiveView(mindMap', heap') = LiveView(mindMap, heap)
              /\ UNCHANGED <<history, historyIndex>>
        /\ (lastCall.op = "undo" /\ lastCall'.op = "redo"
               /\ Val(lastCall.before).historyIndex > 0) =>
              /\ LiveView(mindMap', heap') = Some(Val(lastCall.before).mindMap)
              /\ historyIndex' = Val(lastCall.before).historyIndex
      ]_vars

(* C7: updateNodeInTree with a node id that is not in the live document, or *)
(* with no document loaded, changes neither the document nor the history    *)
(* nor the index.                                                           *)
C7_UpdateOfAbsentNodeIsNoOp ==
    [][ (lastCall'.op \in UpdateOps
           /\ (IsNull(mindMap) \/ lastCall'.id \notin IdsOf(Val(mindMap)))) =>
          UNCHANGED docVars
      ]_vars

(* C8: a generation call that fails commits nothing: neither its start nor  *)
(* its failure changes the live document, the history or the index.         *)
C8_FailedGenerationCommitsNothing ==
    [][ (lastCall'.op \in {"start", "failed"}) =>
          /\ UNCHANGED docVars
          /\ LiveView(mindMap', heap') = LiveView(mindMap, heap)
          /\ HistoryView(history', heap') = HistoryView(history, heap)
      ]_vars

(* a node generation has failed on a loaded document that was edited        *)
(* while the call was in flight                                             *)
C8_Witness ==
    /\ lastCall.op = "failed"
    /\ lastCall.error = "quota"
    /\ lastCall.id = "b"
    /\ Len(history) >= 2

(* The tree without its flags *)
RECURSIVE Unflagged(_)
Unflagged(node) ==
    [node EXCEPT !.isFlaggedForReview = FALSE,
                 !.flaggedSourceIds = <<>>,
                 !.children = [i \in 1..Len(@) |-> Unflagged(@[i])]]

Watches(n, id) == includes(n.watchedNodeIds, id)

HasDep == ~IsNull(lastCall.dep)
DepIn == NodesOf(Val(lastCall.dep).root)
DepOut == NodesOf(Val(lastCall.dep).out)
DepId == Val(lastCall.dep).id

(* C9 as claimed: checkDependencies returns a tree of the same shape in     *)
(* which exactly the nodes watching the changed id are flagged with that id *)
(* once among their sources, the others keeping their flag and sources.     *)
C9_ExactlyTheWatchersAreFlagged ==
    HasDep =>
        /\ Unflagged(Val(lastCall.dep).out) = Unflagged(Val(lastCall.dep).root)
        /\ \A k \in 1..Len(DepIn) :
              /\ Watches(DepIn[k], DepId)
                   <=> (/\ DepOut[k].isFlaggedForReview
                        /\ Occurrences(DepOut[k].flaggedSourceIds, DepId) = 1)
              /\ ~Watches(DepIn[k], DepId) =>
                    /\ DepOut[k].isFlaggedForReview = DepIn[k].isFlaggedForReview
                    /\ DepOut[k].flaggedSourceIds = DepIn[k].flaggedSourceIds

(* C9 as amended: checkDependencies returns a tree of the same shape in     *)
(* which every node watching the changed id is flagged and has that id      *)
(* among its sources, appended once if it was absent and left as it was     *)
(* otherwise; every node not watching it keeps its flag and sources.        *)
C9_WatchersAreFlagged ==
    HasDep =>
        /\ Unflagged(Val(lastCall.dep).out) = Unflagged(Val(lastCall.dep).root)
        /\ \A k \in 1..Len(DepIn) :
              /\ Watches(DepIn[k], DepId) =>
                    /\ DepOut[k].isFlaggedForReview
                    /\ DepOut[k].flaggedSourceIds =
                          IF includes(DepIn[k].flaggedSourceIds, DepId)
                          THEN DepIn[k].flaggedSourceIds
                          ELSE Append(DepIn[k].flaggedSourceIds, DepId)
              /\ ~Watches(DepIn[k], DepId) =>
                    /\ DepOut[k].isFlaggedForReview = DepIn[k].isFlaggedForReview
                    /\ DepOut[k].flaggedSourceIds = DepIn[k].flaggedSourceIds

(* a propagation over a tree with a watcher and with a node that carries    *)
(* the changed id among its sources without watching it                     *)
C9_Witness ==
    /\ HasDep
    /\ \E k \in 1..Len(DepIn) : Watches(DepIn[k], DepId)
    /\ \E k \in 1..Len(DepIn) :
          /\ ~Watches(DepIn[k], DepId)
          /\ includes(DepIn[k].flaggedSourceIds, DepId)

(* C10: propagating the same changed id again gives the same tree, and no   *)
(* flaggedSourceIds list of the document or of a snapshot holds an id twice.*)
C10_PropagationIdempotent ==
    /\ HasDep => checkDependencies(Val(lastCall.dep).out, DepId) = Val(lastCall.dep).out
    /\ \A i \in 1..Len(history) :
          \A k \in 1..Len(NodesOf(history[i].data)) :
              NoDuplicates(NodesOf(history[i].data)[k].flaggedSourceIds)
    /\ ~IsNull(mindMap) =>
          \A k \in 1..Len(NodesOf(Val(mindMap))) :
              NoDuplicates(NodesOf(Val(mindMap))[k].flaggedSourceIds)

(* a propagation reaching a watcher that the same id had flagged before *)
C10_Witness ==
    /\ HasDep
    /\ \E k \in 1..Len(DepIn) :
          /\ Watches(DepIn[k], DepId)
          /\ includes(DepIn[k].flaggedSourceIds, DepId)


AllTrees == (IF IsNull(mindMap) THEN {} ELSE {Val(mindMap)})
               \cup {history[i].data : i \in 1..Len(history)}

(* C11: a step gives a node a flag, or a source id, only when that step     *)
(* propagates the change of a node that this node itself watches, and the   *)
(* source added is that node's id: a node watching only a flagged node is   *)
(* not flagged, neither when the flag is raised nor when it is cleared.     *)
C11_FlagsAreOneHop ==
    [][ (~IsNull(mindMap) /\ ~IsNull(mindMap')) =>
          \A z \in IdsOf(Val(mindMap)) \cap IdsOf(Val(mindMap')) :
             LET before == NodeById(Val(mindMap), z)
                 after == NodeById(Val(mindMap'), z)
                 added == {s \in {after.flaggedSourceIds[k] :
                                     k \in 1..Len(after.flaggedSourceIds)} :
                              ~includes(before.flaggedSourceIds, s)}
             IN  ((after.isFlaggedForReview /\ ~before.isFlaggedForReview)
                     \/ added # {}) =>
                    /\ ~IsNull(lastCall'.dep)
                    /\ Watches(before, Val(lastCall'.dep).id)
                    /\ added \subseteq {Val(lastCall'.dep).id}
      ]_vars

(* b was changed, a (watching b) was flagged and its flag has just been     *)
(* cleared; c (watching a only) is still unflagged                          *)
C11_Witness ==
    /\ lastCall.op = "clear"
    /\ lastCall.id = "a"
    /\ Len(history) >= 3
    /\ LET prevDoc == history[Len(history) - 1].data
       IN  /\ "a" \in IdsOf(prevDoc)
           /\ NodeById(prevDoc, "a").isFlaggedForReview
           /\ NodeById(prevDoc, "a").flaggedSourceIds = <<"b">>
           /\ ~NodeById(prevDoc, "c").isFlaggedForReview
    /\ Watches(NodeById(Val(mindMap), "c"), "a")
    /\ Watches(NodeById(Val(mindMap), "a"), "b")
    /\ ~Watches(NodeById(Val(mindMap), "c"), "b")
    /\ ~NodeById(Val(mindMap), "a").isFlaggedForReview
    /\ ~NodeById(Val(mindMap), "c").isFlaggedForReview

(* C12: in the live document and in every snapshot a node is flagged        *)
(* exactly when its flaggedSourceIds is not empty, and a step empties a     *)
(* node's flaggedSourceIds only if it is the clear-flag operation on that   *)
(* node, which also sets its flag to false.                                 *)
C12_FlagIffSources ==
    [][ /\ \A t \in AllTrees' :
              \A k \in 1..Len(NodesOf(t)) :
                  NodesOf(t)[k].isFlaggedForReview
                      <=> NodesOf(t)[k].flaggedSourceIds # <<>>
        /\ (~IsNull(mindMap) /\ ~IsNull(mindMap')) =>
              \A z \in IdsOf(Val(mindMap)) \cap IdsOf(Val(mindMap')) :
                  (NodeById(Val(mindMap), z).flaggedSourceIds # <<>>
                      /\ NodeById(Val(mindMap'), z).flaggedSourceIds = <<>>) =>
                        /\ lastCall'.op = "clear"
                        /\ lastCall'.id = z
                        /\ ~NodeById(Val(mindMap'), z).isFlaggedForReview
      ]_vars

(* a flag raised by a propagation on a document that had none, then cleared *)
C12_Witness ==
    /\ lastCall.op = "clear"
    /\ Len(history) >= 3
    /\ \A k \in 1..Len(NodesOf(history[1].data)) :
          ~NodesOf(history[1].data)[k].isFlaggedForReview
    /\ NodeById(history[Len(history) - 1].data, lastCall.id).isFlaggedForReview
    /\ NodeById(Val(mindMap), lastCall.id).flaggedSourceIds = <<>>


(* The positions of root whose node has the id, in pre-order *)
Matches(root, id) ==
    SelectSeq(PositionsOf(root), LAMBDA pos : NodeAt(root, pos).id = id)

LabelsTo(root, pos) ==
    [k \in 1..(Len(pos) + 1) |-> NodeAt(root, SubSeq(pos, 1, k - 1)).label]

(* C13: findNodeAndPath returns null for an absent id; for a present id it  *)
(* returns the first node with the id in pre-order, the labels from the     *)
(* root to that node inclusive (depth + 1 of them, the last being the       *)
(* node's label), and the node's parent, null exactly for the root.         *)
C13_FindNodeAndPath ==
    lastCall.op = "find" =>
        LET root == Val(mindMap)
            r == Val(lastCall.result)
            m == Matches(root, lastCall.id)
        IN  IF m = <<>> THEN IsNull(r)
            ELSE /\ ~IsNull(r)
                 /\ Val(r).node = NodeAt(root, m[1])
                 /\ Val(r).path = LabelsTo(root, m[1])
                 /\ Len(Val(r).path) = Len(m[1]) + 1
                 /\ Val(r).path[Len(Val(r).path)] = Val(r).node.label
                 /\ IsNull(Val(r).parent) <=> m[1] = <<>>
                 /\ m[1] # <<>> =>
                       Val(r).parent = Some(NodeAt(root, SubSeq(m[1], 1, Len(m[1]) - 1)))

(* an id carried by two nodes, the first of them at depth 2 *)
C13_Witness ==
    /\ lastCall.op = "find"
    /\ Len(Matches(Val(mindMap), lastCall.id)) >= 2
    /\ Len(Matches(Val(mindMap), lastCall.id)[1]) = 2
    /\ ~IsNull(Val(lastCall.result))

RECURSIVE Dotted(_)
Dotted(pos) == IF pos = <<>> THEN "" ELSE "." \o ToString(Head(pos)) \o Dotted(Tail(pos))

(* C14: calculateNodeNumber returns "1.0" for the root, "1.p1.p2...pk" for  *)
(* the node at child positions p1, ..., pk (1-based), and null for an       *)
(* absent id.                                                               *)
C14_CalculateNodeNumber ==
    lastCall.op = "number" =>
        LET root == Val(mindMap)
            r == Val(lastCall.result)
            m == Matches(root, lastCall.id)
        IN  IF m = <<>> THEN IsNull(r)
            ELSE r = Some(IF m[1] = <<>> THEN "1.0" ELSE "1" \o Dotted(m[1]))

(* the second child of the root's first child: "1.1.2" *)
C14_Witness ==
    /\ lastCall.op = "number"
    /\ lastCall.result = Some(Some("1.1.2"))
    /\ Matches(Val(mindMap), lastCall.id)[1] = <<1, 2>>


(* The flow view's last projection *)
IsFlow == lastCall.op = "flow"
FlowSteps == Val(lastCall.result).steps
FlowRoot == Val(lastCall.result).root

IsReal(node) == node.id[1] = "step"
IsLoop(node) == node.id[1] = "loop"

RECURSIVE Height(_)
Height(node) ==
    LET RECURSIVE Max(_, _)
        Max(i, m) == IF i > Len(node.children) THEN m
                     ELSE Max(i + 1, IF Height(node.children[i]) > m
                                     THEN Height(node.children[i]) ELSE m)
    IN  1 + Max(1, 0)

RECURSIVE NoRepeatOnPath(_, _)
NoRepeatOnPath(node, seen) ==
    IF IsReal(node)
    THEN /\ node.id[2] \notin seen
         /\ \A i \in 1..Len(node.children) :
               NoRepeatOnPath(node.children[i], seen \cup {node.id[2]})
    ELSE \A i \in 1..Len(node.children) : NoRepeatOnPath(node.children[i], seen)

StepById(ss, id) == ss[CHOOSE k \in 1..Len(ss) : ss[k].id = id]
StepIds(ss) == {ss[k].id : k \in 1..Len(ss)}

(* The step an action step is followed by, and the steps a decision's        *)
(* branches lead to, as the specification describes the flow                *)
Successors(ss, id) ==
    LET st == StepById(ss, id)
    IN  IF st.type = "decision" THEN TargetsOf(st) \cap StepIds(ss)
        ELSE IF st.isEndState THEN {}
        ELSE {ss[k].id : k \in {h \in 1..Len(ss) :
                                  ss[h].stepNumber = st.stepNumber + 1}}

RECURSIVE ReachableFrom(_, _)
ReachableFrom(ss, set) ==
    LET more == set \cup UNION {Successors(ss, id) : id \in set}
    IN  IF more = set THEN set ELSE ReachableFrom(ss, more)

LowestStep(ss) ==
    ss[CHOOSE k \in 1..Len(ss) : \A h \in 1..Len(ss) : ss[k].stepNumber <= ss[h].stepNumber]

CycleReachable(ss) ==
    \E id \in ReachableFrom(ss, {LowestStep(ss).id}) :
        id \in ReachableFrom(ss, Successors(ss, id))

IsLoopLeafOf(node, ss) ==
    /\ IsLoop(node)
    /\ node.children = <<>>
    /\ node.id[2] \in StepIds(ss)
    /\ node.data.action = "Loop to Step " \o ToString(StepById(ss, node.id[2]).stepNumber)

(* C15: for every non-empty step list the projection yields a tree of       *)
(* height at most the number of steps plus one in which no step id occurs   *)
(* twice on a path from the root, every loop node is a leaf naming the      *)
(* sequence number of the step looped to, and there is such a leaf whenever *)
(* a cycle can be reached from the first step.                              *)
C15_ProjectionTerminatesWithLoops ==
    (IsFlow /\ Len(FlowSteps) > 0) =>
        /\ ~IsNull(FlowRoot)
        /\ Height(Val(FlowRoot)) <= Len(FlowSteps) + 1
        /\ NoRepeatOnPath(Val(FlowRoot), {})
        /\ \A k \in 1..Len(NodesOf(Val(FlowRoot))) :
              IsLoop(NodesOf(Val(FlowRoot))[k]) =>
                  IsLoopLeafOf(NodesOf(Val(FlowRoot))[k], FlowSteps)
        /\ CycleReachable(FlowSteps) =>
              \E k \in 1..Len(NodesOf(Val(FlowRoot))) :
                  IsLoopLeafOf(NodesOf(Val(FlowRoot))[k], FlowSteps)

(* two decision steps whose branches lead to each other *)
C15_Witness ==
    /\ IsFlow
    /\ Len(FlowSteps) = 2
    /\ \A k \in 1..2 : FlowSteps[k].type = "decision"
    /\ FlowSteps[2].id \in TargetsOf(FlowSteps[1])
    /\ FlowSteps[1].id \in TargetsOf(FlowSteps[2])
    /\ CycleReachable(FlowSteps)
    /\ \E k \in 1..Len(NodesOf(Val(FlowRoot))) :
          IsLoopLeafOf(NodesOf(Val(FlowRoot))[k], FlowSteps)

BranchesOf(step) == IF IsNull(step.branches) THEN <<>> ELSE Val(step.branches)

(* C16: in the projected tree the node of a decision step has one child per *)
(* branch, in branch order: the node (or loop node) of the target step with *)
(* the branch's label when the branch has a target, a placeholder leaf with *)
(* the branch's label when it has none.                                     *)
C16_OneChildPerBranch ==
    (IsFlow /\ Len(FlowSteps) > 0) =>
        \A k \in 1..Len(NodesOf(Val(FlowRoot))) :
           LET node == NodesOf(Val(FlowRoot))[k]
               bs == BranchesOf(node.data)
           IN  (IsReal(node) /\ node.data.type = "decision") =>
                  /\ Len(node.children) = Len(bs)
                  /\ \A j \in 1..Len(bs) :
                        IF ~IsNull(bs[j].targetStepId)
                        THEN /\ node.children[j].type = "step"
                             /\ node.children[j].id[2] = Val(bs[j].targetStepId)
                             /\ node.children[j].label = Some(bs[j].label)
                        ELSE /\ node.children[j].type = "placeholder"
                             /\ node.children[j].children = <<>>
                             /\ node.children[j].label = Some(bs[j].label)

(* C17: the root of the projected tree is the step with the smallest        *)
(* sequence number; the node of an action step that is not an end state     *)
(* and has a step with the next sequence number has exactly one child, the  *)
(* projection of that step; the node of any other action step is a leaf.    *)
C17_ActionStepsChain ==
    (IsFlow /\ Len(FlowSteps) > 0) =>
        /\ Val(FlowRoot).id = <<"step", LowestStep(FlowSteps).id>>
        /\ \A k \in 1..Len(NodesOf(Val(FlowRoot))) :
              LET node == NodesOf(Val(FlowRoot))[k]
                  next == {h \in 1..Len(FlowSteps) :
                             FlowSteps[h].stepNumber = node.data.stepNumber + 1}
              IN  (IsReal(node) /\ node.data.type = "action") =>
                     IF ~node.data.isEndState /\ next # {}
                     THEN /\ Len(node.children) = 1
                          /\ node.children[1].type = "step"
                          /\ \E h \in next : node.children[1].id[2] = FlowSteps[h].id
                     ELSE node.children = <<>>

(* an action step followed by an end state: one child, which is a leaf *)
C17_Witness ==
    /\ IsFlow
    /\ Len(FlowSteps) = 2
    /\ FlowSteps[1].type = "action" /\ ~FlowSteps[1].isEndState
    /\ FlowSteps[2].type = "action" /\ FlowSteps[2].isEndState
    /\ Len(Val(FlowRoot).children) = 1
    /\ Val(FlowRoot).children[1].id = <<"step", FlowSteps[2].id>>
    /\ Val(FlowRoot).children[1].children = <<>>


(* The auto-linker's call: the generated step objects and values, and the   *)
(* returned ones                                                            *)
IsLink == lastCall.op = "autolink"
LinkIn == Val(lastCall.result).steps
LinkOut == Val(lastCall.result).out
LinkBefore == Val(lastCall.result).before
LinkAfter == Val(lastCall.result).after
StepIn(k) == LinkBefore[LinkIn[k]]
StepOut(k) == LinkAfter[LinkOut[k]]

(* The labels carrying one of the positive keywords, letter case ignored *)
PositiveLabels == {LabelYes, LabelOK}

(* A decision with a branch, no branch linked, and a following step *)
Linkable(k) ==
    /\ StepIn(k).type = "decision"
    /\ ~IsNull(StepIn(k).branches)
    /\ Len(Val(StepIn(k).branches)) > 0
    /\ \A j \in 1..Len(Val(StepIn(k).branches)) :
          IsNull(Val(StepIn(k).branches)[j].targetStepId)
    /\ k < Len(LinkIn)

(* The branch to link: the first with a positive label, else the first *)
Preferred(bs) ==
    IF \E j \in 1..Len(bs) : bs[j].label \in PositiveLabels
    THEN CHOOSE j \in 1..Len(bs) :
            /\ bs[j].label \in PositiveLabels
            /\ \A h \in 1..(j - 1) : bs[h].label \notin PositiveLabels
    ELSE 1

(* C18: for every decision step with at least one branch, no linked branch  *)
(* and a following step in the list, autoLinkDecisions links exactly one    *)
(* branch to the id of the immediately following step: the first branch     *)
(* whose label carries a positive keyword in any letter case, or the first  *)
(* branch when none does; the other branches stay unlinked                  *)
C18_LinksOneBranchToNextStep ==
    IsLink =>
        \A k \in 1..Len(LinkIn) :
            Linkable(k) =>
                LET bs == Val(StepIn(k).branches)
                    out == Val(StepOut(k).branches)
                IN  /\ Len(out) = Len(bs)
                    /\ out[Preferred(bs)].targetStepId = Some(StepIn(k + 1).id)
                    /\ \A j \in 1..Len(bs) :
                          j # Preferred(bs) => IsNull(out[j].targetStepId)

(* A ["No","Yes"] decision followed by a step has had its second branch     *)
(* linked                                                                   *)
C18_Witness ==
    /\ IsLink
    /\ Len(LinkIn) = 2
    /\ Linkable(1)
    /\ LET bs == Val(StepIn(1).branches)
       IN  /\ Len(bs) = 2 /\ bs[1].label = LabelNo /\ bs[2].label = LabelYes
           /\ Val(StepOut(1).branches)[2].targetStepId = Some(StepIn(2).id)

(* C19: autoLinkDecisions returns, as they were, every action step, every   *)
(* decision with a branch already linked, every decision without branches   *)
(* and a decision that is last; it keeps the number and the order of the    *)
(* steps and every branch label, and writes to no object of its input       *)
C19_LinkFrame ==
    IsLink =>
        /\ Len(LinkOut) = Len(LinkIn)
        /\ \A k \in 1..Len(LinkIn) :
              /\ StepOut(k).id = StepIn(k).id
              /\ StepOut(k).stepNumber = StepIn(k).stepNumber
              /\ IsNull(StepOut(k).branches) = IsNull(StepIn(k).branches)
              /\ ~IsNull(StepIn(k).branches) =>
                    /\ Len(Val(StepOut(k).branches)) = Len(Val(StepIn(k).branches))
                    /\ \A j \in 1..Len(Val(StepIn(k).branches)) :
                          Val(StepOut(k).branches)[j].label =
                              Val(StepIn(k).branches)[j].label
              /\ ~Linkable(k) => StepOut(k) = StepIn(k)
        /\ \A r \in DOMAIN LinkBefore : LinkAfter[r] = LinkBefore[r]

(* A decision whose second branch is linked and whose first is not has been *)
(* through the auto-linker, a step following it                             *)
C19_Witness ==
    /\ IsLink
    /\ Len(LinkIn) = 2
    /\ StepIn(1).type = "decision"
    /\ ~IsNull(StepIn(1).branches)
    /\ Len(Val(StepIn(1).branches)) = 2
    /\ IsNull(Val(StepIn(1).branches)[1].targetStepId)
    /\ ~IsNull(Val(StepIn(1).branches)[2].targetStepId)
    /\ IsNull(Val(StepOut(1).branches)[1].targetStepId)


(* The systems tree call: its data, root id, filter and result *)
IsTree == lastCall.op = "tree"
TreeData == Val(systemsViewData)
TreeRootId == Val(systemsView).rootId
TreeFilter == Val(systemsView).dataFilter
TreeResult == Val(lastCall.result).tree

ActorIdsOf(data) == {data.actors[n].id : n \in 1..Len(data.actors)}

(* The actors joined to the actors of S by one interaction, either way *)
Neighbours(data, S) ==
    {a \in ActorIdsOf(data) :
        \E i \in 1..Len(data.interactions) :
            \/ data.interactions[i].source \in S /\ data.interactions[i].target = a
            \/ data.interactions[i].target \in S /\ data.interactions[i].source = a}

RECURSIVE ConnectedFrom(_, _)
ConnectedFrom(data, S) ==
    IF Neighbours(data, S) \subseteq S THEN S
    ELSE ConnectedFrom(data, S \cup Neighbours(data, S))

(* C20: for a root id that resolves to an actor, buildSystemTree without a  *)
(* filter returns a tree in which every actor joined to the root by a chain *)
(* of interactions, in either direction, occurs exactly once and no other   *)
(* actor occurs, whatever cycles, parallel edges and self-loops the         *)
(* interactions hold                                                        *)
C20_ConnectedActorsOnce ==
    (IsTree /\ TreeRootId \in ActorIdsOf(TreeData)) =>
        /\ ~IsNull(TreeResult)
        /\ Val(TreeResult).id = TreeRootId
        /\ LET ids == TreeIdsOf(Val(TreeResult))
               connected == ConnectedFrom(TreeData, {TreeRootId})
           IN  /\ \A a \in connected : Occurrences(ids, a) = 1
               /\ \A n \in 1..Len(ids) : ids[n] \in connected

(* A tree was built over three actors joined in a cycle that the root      *)
(* enters only against the direction of its interactions                    *)
C20_Witness ==
    /\ IsTree
    /\ TreeRootId = 1
    /\ Len(TreeData.actors) = MaxActors
    /\ \E i, j, k \in 1..Len(TreeData.interactions) :
          /\ TreeData.interactions[i].source = 2 /\ TreeData.interactions[i].target = 1
          /\ TreeData.interactions[j].source = 2 /\ TreeData.interactions[j].target = 3
          /\ TreeData.interactions[k].source = 3 /\ TreeData.interactions[k].target = 1
    /\ ~IsNull(TreeResult)
    /\ Len(TreeIdsOf(Val(TreeResult))) = 3


(* The interaction list 1 -> 2 (X), 2 -> 3 (X), 1 -> 3 (Y) over three actors *)
IsMeshExample ==
    /\ Len(TreeData.interactions) = 3
    /\ LET l == TreeData.interactions
       IN  /\ l[1].source = 1 /\ l[1].target = 2 /\ l[1].data = "X"
           /\ l[2].source = 2 /\ l[2].target = 3 /\ l[2].data = "X"
           /\ l[3].source = 1 /\ l[3].target = 3 /\ l[3].data = "Y"

(* The nodes of a systems tree, in pre-order *)
RECURSIVE TreeNodesOf(_)
RECURSIVE ForestNodesOf(_)
TreeNodesOf(node) == <<node>> \o ForestNodesOf(node.children)
ForestNodesOf(nodes) ==
    IF nodes = <<>> THEN <<>>
    ELSE TreeNodesOf(Head(nodes)) \o ForestNodesOf(Tail(nodes))

(* C21: for the interactions A -> B (X), B -> C (X), A -> C (Y) in that     *)
(* order, rooted at A without a filter, C occurs exactly once in the tree   *)
(* and below B                                                              *)
C21_SharedTargetUnderFirstPath ==
    (IsTree /\ IsMeshExample /\ TreeRootId = 1 /\ IsNull(TreeFilter)) =>
        /\ ~IsNull(TreeResult)
        /\ Occurrences(TreeIdsOf(Val(TreeResult)), 3) = 1
        /\ \E n \in 1..Len(TreeNodesOf(Val(TreeResult))) :
              /\ TreeNodesOf(Val(TreeResult))[n].id = 2
              /\ includes(ForestIdsOf(TreeNodesOf(Val(TreeResult))[n].children), 3)

(* The interactions carrying the payload f, as systems view data *)
Filtered(data, f) ==
    [data EXCEPT !.interactions =
        SelectSeq(data.interactions, LAMBDA link : link.data = f)]

(* C22: with a payload filter, every parent-child edge of the tree comes    *)
(* from an interaction with that payload joining the two actors, and the    *)
(* nodes are the root and exactly the actors joined to it by chains of      *)
(* interactions with that payload, each once                                *)
C22_FilteredTree ==
    (IsTree /\ ~IsNull(TreeFilter) /\ TreeRootId \in ActorIdsOf(TreeData)) =>
        /\ ~IsNull(TreeResult)
        /\ LET nodes == TreeNodesOf(Val(TreeResult))
               f == Val(TreeFilter)
               connected == ConnectedFrom(Filtered(TreeData, f), {TreeRootId})
           IN  /\ \A a \in connected : Occurrences(TreeIdsOf(Val(TreeResult)), a) = 1
               /\ \A n \in 1..Len(nodes) : nodes[n].id \in connected
               /\ \A n \in 1..Len(nodes) :
                     \A c \in 1..Len(nodes[n].children) :
                         LET child == nodes[n].children[c]
                         IN  \E i \in 1..Len(TreeData.interactions) :
                               LET link == TreeData.interactions[i]
                               IN  /\ link.data = f
                                   /\ \/ /\ link.source = nodes[n].id
                                         /\ link.target = child.id
                                         /\ child.linkLabel = "-> " \o f
                                      \/ /\ link.target = nodes[n].id
                                         /\ link.source = child.id
                                         /\ child.linkLabel = "<- " \o f

(* The tree of the example rooted at A under the filter Y holds A and C *)
C22_Witness ==
    /\ IsTree
    /\ IsMeshExample
    /\ TreeRootId = 1
    /\ TreeFilter = Some("Y")
    /\ ~IsNull(TreeResult)
    /\ TreeIdsOf(Val(TreeResult)) = <<1, 3>>


(* The interactions from the actor with id s to the actor with id t *)
Between(data, s, t) ==
    SelectSeq(data.interactions, LAMBDA link : link.source = s /\ link.target = t)

(* C23: for every ordered pair of actors (S, T) the systems view holds, the *)
(* matrix cell looked up with the key "<S.id>-<T.id>" holds exactly the     *)
(* interactions from S to T, in list order, and is absent when there are    *)
(* none                                                                     *)
C23_CellHoldsItsPair ==
    ~IsNull(systemsViewData) =>
        LET data == Val(systemsViewData)
        IN  \A n, m \in 1..Len(data.actors) :
                LET S == data.actors[n]
                    T == data.actors[m]
                IN  cellMapGet(data, cellKey(S.id, T.id)) =
                        IF Between(data, S.id, T.id) = <<>> THEN Null
                        ELSE Some(Between(data, S.id, T.id))

(* Every interaction starts and ends at an actor of the data *)
EndpointsExist ==
    ~IsNull(systemsViewData) =>
        \A i \in 1..Len(Val(systemsViewData).interactions) :
            /\ Val(systemsViewData).interactions[i].source
                  \in ActorIdsOf(Val(systemsViewData))
            /\ Val(systemsViewData).interactions[i].target
                  \in ActorIdsOf(Val(systemsViewData))

(* s without its n-th element *)
RemoveAt(s, n) == SubSeq(s, 1, n - 1) \o SubSeq(s, n + 1, Len(s))

(* A delete-actor step takes one actor out of the list and the interactions *)
(* that start or end at it, and nothing else                                *)
DeleteActorFrame ==
    (lastCall'.op = "deleteActor" /\ systemsViewData' # systemsViewData) =>
        LET before == Val(systemsViewData)
            after == Val(systemsViewData')
            actorId == Val(lastCall'.result)
        IN  /\ \E n \in 1..Len(before.actors) :
                  /\ before.actors[n].id = actorId
                  /\ after.actors = RemoveAt(before.actors, n)
            /\ after.interactions =
                  SelectSeq(before.interactions,
                            LAMBDA i : i.source # actorId /\ i.target # actorId)

(* C24: through add-actor, add-interaction, delete-interaction and          *)
(* delete-actor every interaction keeps starting and ending at an existing  *)
(* actor, and delete-actor removes the actor, the interactions that start   *)
(* or end at it, and nothing else                                           *)
C24_ReferentialIntegrity == []EndpointsExist /\ [][DeleteActorFrame]_vars


(* C25: in the process editor, after an insert-step or a delete-step the    *)
(* stepNumber values of the editor's list are 1, 2, ..., n in list order    *)
C25_StepNumbersContiguous ==
    (~IsNull(processContent) /\ lastCall.op \in {"insert", "remove"}) =>
        \A k \in 1..Len(steps) : heap[steps[k]].stepNumber = k

(* The first step of a saved two-step process was deleted, and the step     *)
(* that was second is the only one left, numbered 1                         *)
C25_Witness ==
    /\ ~IsNull(processContent)
    /\ lastCall.op = "remove"
    /\ Len(steps) = 1
    /\ heap[steps[1]].id = 2
    /\ heap[steps[1]].stepNumber = 1


(* C26: a tutorial run, from its start to its end, leaves the document, the *)
(* history, the input text, the session name, the tuning and the theme as    *)
(* they were when the tutorial was started.                                  *)
C26_TutorialLeavesMainState ==
    (lastCall.op = "endTutorial" /\ ~IsNull(lastCall.before)) =>
        MainState = Val(lastCall.before)

(* C30: the live document is absent exactly when the history is empty, and   *)
(* then the index is -1; otherwise the index addresses an entry of a history *)
(* of at most HistoryLimit entries.                                          *)
C30_DocumentAndHistoryAgree ==
    /\ IsNull(mindMap) <=> (history = <<>>)
    /\ history = <<>> => historyIndex = -1
    /\ history # <<>> =>
          /\ 0 <= historyIndex
          /\ historyIndex < Len(history)
          /\ Len(history) <= HistoryLimit

(* a full history whose first snapshot, the import or generation, was       *)
(* evicted by a commit, and an undo on it                                    *)
C30_Witness ==
    /\ Len(history) = HistoryLimit
    /\ history[1].description = "toggle"
    /\ historyIndex = HistoryLimit - 2
    /\ lastCall.op = "undo"

GenerationOps == {"details", "expand", "process"}

(* The last step committed an edit or a deletion while a generation call    *)
(* on a node was in flight                                                  *)
EditInFlight ==
    /\ ~IsNull(pending)
    /\ Val(pending).type \in GenerationOps
    /\ lastCall.op \in {"edit", "delete"}
    /\ history # <<>>
    /\ historyIndex = Len(history) - 1
    /\ history[Len(history)].timestamp = clock - 1
    /\ history[Len(history)].description = lastCall.op

(* The live document next shows the edit or the deletion just committed *)
EditSurvives ==
    /\ ~IsNull(mindMap')
    /\ IF lastCall.op = "delete"
       THEN lastCall.id \notin IdsOf(Val(mindMap'))
       ELSE /\ lastCall.id \in IdsOf(Val(mindMap'))
            /\ NodeById(Val(mindMap'), lastCall.id).label
                 = NodeById(Val(mindMap), lastCall.id).label

(* C27: an edit or a deletion committed while a generation call is in       *)
(* flight is still in the live document after the generation result is      *)
(* committed, and its snapshot is in the history before the generation's.   *)
C27_EditsAreSerialized ==
    [][ (EditInFlight /\ lastCall'.op \in GenerationOps /\ clock' = clock + 1) =>
          /\ EditSurvives
          /\ \E k \in 1..(Len(history') - 1) :
                /\ history'[k].timestamp = clock - 1
                /\ history'[Len(history')].timestamp = clock
      ]_vars

(* The tree without what an update of node id may change: the node itself   *)
(* and, when the dependency check runs, the flags of the nodes watching it  *)
RECURSIVE OutsideOf(_, _, _)
OutsideOf(node, id, dep) ==
    IF node.id = id THEN [id |-> id]
    ELSE [node EXCEPT
             !.isFlaggedForReview = IF dep /\ Watches(node, id) THEN FALSE ELSE @,
             !.flaggedSourceIds = IF dep /\ Watches(node, id) THEN <<>> ELSE @,
             !.children = [i \in 1..Len(@) |-> OutsideOf(@[i], id, dep)]]

(* The history after this step is the history up to the current index, less *)
(* its oldest entry if it is full, and one new entry holding the document   *)
OneEntryAppended ==
    LET kept == SubSeq(history, 1, historyIndex + 1)
        base == IF Len(kept) >= HistoryLimit THEN Tail(kept) ELSE kept
    IN  /\ Len(history') = Len(base) + 1
        /\ HistoryView(SubSeq(history', 1, Len(base)), heap') = HistoryView(base, heap)
        /\ history'[Len(history')].timestamp = clock
        /\ ~IsNull(mindMap')
        /\ Deref(history'[Len(history')].data, heap') = Deref(Val(mindMap'), heap')

IsUpdateStep == lastCall'.op \in UpdateOps /\ clock' = clock + 1

(* C28: a successful updateNodeInTree on node N changes, in the document,   *)
(* only N and, when the dependency check is requested, the flag and the     *)
(* flag sources of the nodes watching N; the other nodes and the order of   *)
(* children stay, and exactly one history entry is appended.                *)
C28_UpdateFrame ==
    [][ IsUpdateStep =>
          /\ ~IsNull(mindMap)
          /\ OutsideOf(Deref(Val(mindMap'), heap'), lastCall'.id, ~IsNull(lastCall'.dep))
               = OutsideOf(Deref(Val(mindMap), heap), lastCall'.id, ~IsNull(lastCall'.dep))
          /\ OneEntryAppended
      ]_vars

(* The tree without the subtrees rooted at a node with the id *)
RECURSIVE Without(_, _)
Without(node, id) ==
    LET keep(c) == c.id # id
        kids == SelectSeq(node.children, keep)
    IN  [node EXCEPT !.children = [i \in 1..Len(kids) |-> Without(kids[i], id)]]

IsDeleteStep == lastCall'.op = "delete"

DeletesPresentNonRoot ==
    /\ ~IsNull(mindMap)
    /\ lastCall'.id \in IdsOf(Val(mindMap))
    /\ lastCall'.id # Val(mindMap).id

(* C29: deleting a present non-root node removes that node with its         *)
(* descendants from its parent's children, the siblings keeping their       *)
(* order, flags every remaining node watching the deleted id and leaves the *)
(* flags of the others, and appends exactly one history entry; deleting an  *)
(* id that is not in the document changes nothing.                          *)
C29_DeleteFrame ==
    [][ IsDeleteStep =>
          /\ DeletesPresentNonRoot =>
                LET before == Without(Deref(Val(mindMap), heap), lastCall'.id)
                    after == Deref(Val(mindMap'), heap')
                IN  /\ clock' = clock + 1
                    /\ lastCall'.id \notin IdsOf(after)
                    /\ Unflagged(after) = Unflagged(before)
                    /\ \A k \in 1..Len(NodesOf(before)) :
                          LET was == NodesOf(before)[k]
                              now == NodesOf(after)[k]
                          IN  IF Watches(was, lastCall'.id)
                              THEN /\ now.isFlaggedForReview
                                   /\ includes(now.flaggedSourceIds, lastCall'.id)
                              ELSE /\ now.isFlaggedForReview = was.isFlaggedForReview
                                   /\ now.flaggedSourceIds = was.flaggedSourceIds
                    /\ OneEntryAppended
          /\ (~IsNull(mindMap) /\ lastCall'.id \notin IdsOf(Val(mindMap))) =>
                /\ UNCHANGED docVars
                /\ LiveView(mindMap', heap') = LiveView(mindMap, heap)
                /\ HistoryView(history', heap') = HistoryView(history, heap)
      ]_vars

(* b, watched by a, has been deleted from a document of four nodes; a is    *)
(* flagged with b as the source                                             *)
C29_Witness ==
    /\ lastCall.op = "delete"
    /\ lastCall.id = "b"
    /\ HasDep
    /\ "b" \notin IdsOf(Val(mindMap))
    /\ Watches(NodeById(Val(mindMap), "a"), "b")
    /\ includes(NodeById(Val(mindMap), "a").flaggedSourceIds, "b")
    /\ Len(history) >= 2

=============================================================================
